---- MODULE Spec2Model ----
(***************************************************************************)
(* A model of bz2xsi.py: the XSI scene-graph classes, the Reader (lexer,   *)
(* block header scanner, recursive-descent block handlers) and the Writer. *)
(*                                                                         *)
(* A file is a sequence of one-character strings; a word is a sequence of  *)
(* characters too.  The Reader's recursion is kept as an explicit stack of *)
(* handler activations: one action is one iteration of one handler's       *)
(* "for block_type, parameters in self.parse_block_headers()" loop, with   *)
(* everything the loop body calls that is not itself such a loop.          *)
(* Reader.line and Reader.col only feed the text of diagnostics and are    *)
(* left out; a float is held in millionths (the six decimals of "%f").     *)
(***************************************************************************)
EXTENDS Integers, Sequences, FiniteSets, TLC

(***************************************************************************)
(* Characters and words                                                    *)
(***************************************************************************)

MAX_WORD == 128

NON_CHARACTERS == {"\r"}

UNNAMED_FRAME_NAME == <<"u", "n", "n", "a", "m", "e", "d">>

Digits == {"0", "1", "2", "3", "4", "5", "6", "7", "8", "9"}

DigitVal ==
  ("0" :> 0) @@ ("1" :> 1) @@ ("2" :> 2) @@ ("3" :> 3) @@ ("4" :> 4) @@
  ("5" :> 5) @@ ("6" :> 6) @@ ("7" :> 7) @@ ("8" :> 8) @@ ("9" :> 9)

LowerOf ==
  ("A" :> "a") @@ ("B" :> "b") @@ ("C" :> "c") @@ ("D" :> "d") @@ ("E" :> "e") @@
  ("F" :> "f") @@ ("G" :> "g") @@ ("H" :> "h") @@ ("I" :> "i") @@ ("J" :> "j") @@
  ("K" :> "k") @@ ("L" :> "l") @@ ("M" :> "m") @@ ("N" :> "n") @@ ("O" :> "o") @@
  ("P" :> "p") @@ ("Q" :> "q") @@ ("R" :> "r") @@ ("S" :> "s") @@ ("T" :> "t") @@
  ("U" :> "u") @@ ("V" :> "v") @@ ("W" :> "w") @@ ("X" :> "x") @@ ("Y" :> "y") @@
  ("Z" :> "z")

\* One character, case-folded as (?i) and str.casefold() fold ASCII text.
Fold(c) == IF c \in DOMAIN LowerOf THEN LowerOf[c] ELSE c

FoldWord(w) == [k \in 1..Len(w) |-> Fold(w[k])]

\* s[a:b] of Python for 0 <= a: the characters a+1 .. min(b, len).
Slice(s, a, b) ==
  LET hi == IF b < Len(s) THEN b ELSE Len(s)
  IN  IF a >= hi THEN <<>> ELSE SubSeq(s, a + 1, hi)

\* The one element of a singleton: The({e(x) : x \in {v}}) is e(v), with v
\* evaluated once.
The(S) == CHOOSE x \in S : TRUE

\* None, for a value that is otherwise a word, a matrix, a mesh or a texture.
None == [none |-> TRUE]

RECURSIVE Concat(_)
Concat(ss) == IF ss = <<>> THEN <<>> ELSE Head(ss) \o Concat(Tail(ss))

(***************************************************************************)
(* Reader.clean                                                            *)
(***************************************************************************)

FRM == <<"f", "r", "m", "-">>
ANIM == <<"a", "n", "i", "m", "-">>

\* clean(name): raises IndexError on the empty string (name[0]).
CleanRaises(name) == name = <<>>

Clean(name) ==
  LET n1 == IF name[1] = "{" /\ name[Len(name)] = "}"
              THEN Slice(name, 1, Len(name) - 1) ELSE name
  IN  IF FoldWord(Slice(n1, 0, 4)) = FRM THEN Slice(n1, 4, Len(n1))
      ELSE IF FoldWord(Slice(n1, 0, 5)) = ANIM THEN Slice(n1, 5, Len(n1))
      ELSE IF n1 = <<>> THEN UNNAMED_FRAME_NAME
      ELSE n1

(***************************************************************************)
(* Reader.parse_block_headers: one header from position p                  *)
(***************************************************************************)

HeaderDelimiters == {" ", "\t", "\n", "{", "}"}

\* One iteration of "for i in range(Reader.MAX_WORD)" on the scan s.
\* s.kind is "scan" while the loop runs, then "block" (yield name,
\* parameters), "end" (a close brace: return) or "eof" (return).
ScanHeader(f, s) ==
  IF s.pos > Len(f) THEN [s EXCEPT !.kind = "eof"]
  ELSE
    LET c == f[s.pos]
        delim == c \in HeaderDelimiters
        flush == delim /\ s.word # <<>>
    IN  IF c \in NON_CHARACTERS THEN [s EXCEPT !.pos = @ + 1]
        ELSE [kind |-> IF c = "{" THEN "block" ELSE IF c = "}" THEN "end" ELSE "scan",
              pos |-> s.pos + 1,
              word |-> IF delim THEN <<>>
                       ELSE IF s.word # <<>> \/ c \notin {",", ";"} THEN Append(s.word, c)
                       ELSE s.word,
              name |-> IF flush /\ s.name = None
                         THEN [none |-> FALSE, w |-> s.word] ELSE s.name,
              parameters |-> IF flush /\ s.name # None
                               THEN Append(s.parameters, s.word) ELSE s.parameters]

\* n iterations of the loop, or fewer when it is left.
RECURSIVE ScanHeaderFor(_, _, _)
ScanHeaderFor(f, s, n) ==
  IF s.kind # "scan" THEN s
  ELSE IF n = 1 THEN ScanHeader(f, s)
  ELSE ScanHeaderFor(f, ScanHeaderFor(f, s, n \div 2), n - n \div 2)

\* kind: "block", "end", "eof" or "toolong" (the for-else: raise
\* XSIParseError).
parse_block_headers(f, p) ==
  The({
    CASE s.kind = "block" ->
           [kind |-> "block", name |-> s.name, parameters |-> s.parameters, pos |-> s.pos]
      [] s.kind = "scan" ->
           [kind |-> "toolong", name |-> None, parameters |-> <<>>, pos |-> s.pos]
      [] OTHER -> [kind |-> s.kind, name |-> None, parameters |-> <<>>, pos |-> s.pos]
    : s \in {ScanHeaderFor(f, [kind |-> "scan", pos |-> p, word |-> <<>>, name |-> None,
                               parameters |-> <<>>], MAX_WORD)}})

(***************************************************************************)
(* Reader.parse_word                                                       *)
(***************************************************************************)

WordDelimiters == {" ", "\t", "\n", ",", ";"}
Quotes == {"'", "\""}

\* One iteration of "for i in range(Reader.MAX_WORD)" on the scan s.
\* s.in_quote is "" for False, else the quote character that opened the
\* span; s.kind is "scan" while the loop runs, then "word" or "eof" (return
\* BLOCK_EOF).
ScanWord(f, s) ==
  IF s.pos > Len(f) THEN [s EXCEPT !.kind = "eof", !.word = <<>>]
  ELSE
    LET c == f[s.pos]
        next == [s EXCEPT !.pos = @ + 1]
    IN  IF s.in_quote # "" /\ c = "\n" THEN next
        ELSE IF s.in_quote # "" /\ c \notin NON_CHARACTERS
          THEN IF c = s.in_quote THEN [next EXCEPT !.kind = "word"]
               ELSE [next EXCEPT !.word = Append(@, c)]
        ELSE IF c \in NON_CHARACTERS THEN next
        ELSE IF c \in Quotes THEN [next EXCEPT !.in_quote = c]
        ELSE IF c \in WordDelimiters
          THEN IF s.word # <<>> THEN [next EXCEPT !.kind = "word"] ELSE next
        ELSE [next EXCEPT !.word = Append(@, c)]

\* n iterations of the loop, or fewer when it is left.
RECURSIVE ScanWordFor(_, _, _)
ScanWordFor(f, s, n) ==
  IF s.kind # "scan" THEN s
  ELSE IF n = 1 THEN ScanWord(f, s)
  ELSE ScanWordFor(f, ScanWordFor(f, s, n \div 2), n - n \div 2)

\* kind: "word", "eof" or "toolong" (the for-else: raise XSIParseError).
parse_word(f, p) ==
  The({
    IF s.kind = "scan" THEN [kind |-> "toolong", word |-> <<>>, pos |-> s.pos]
    ELSE [kind |-> s.kind, word |-> s.word, pos |-> s.pos]
    : s \in {ScanWordFor(f, [kind |-> "scan", pos |-> p, word |-> <<>>, in_quote |-> ""],
                         MAX_WORD)}})

(***************************************************************************)
(* Reader.skip_block                                                       *)
(***************************************************************************)

\* One iteration of "while depth" on the skip s.  s.kind is "scan" while
\* the loop runs, then "end" (BLOCK_END), "eof" (BLOCK_EOF) or "toolong"
\* (XSIParseError out of parse_word).
SkipDepth(f, s) ==
  The({
    IF w.kind # "word" THEN [kind |-> w.kind, pos |-> w.pos, depth |-> s.depth]
    ELSE
  The({
    [kind |-> IF depth = 0 THEN "end" ELSE "scan", pos |-> w.pos, depth |-> depth]
    : depth \in {IF w.word = <<"{">> THEN s.depth + 1
                 ELSE IF w.word = <<"}">> THEN s.depth - 1
                 ELSE s.depth}})
    : w \in {parse_word(f, s.pos)}})

\* n iterations of the loop, or fewer when it is left.  An iteration reads
\* a character at least, or ends the loop.
RECURSIVE SkipDepthFor(_, _, _)
SkipDepthFor(f, s, n) ==
  IF s.kind # "scan" THEN s
  ELSE IF n = 1 THEN SkipDepth(f, s)
  ELSE SkipDepthFor(f, SkipDepthFor(f, s, n \div 2), n - n \div 2)

skip_block(f, p) ==
  The({[kind |-> s.kind, pos |-> s.pos]
       : s \in {SkipDepthFor(f, [kind |-> "scan", pos |-> p, depth |-> 1], Len(f) + 1)}})

(***************************************************************************)
(* The block type patterns (re.match: the pattern matches a prefix of the  *)
(* type name, case-insensitively).  A pattern is a sequence of groups; a   *)
(* group is optional or required and has alternatives; "more" is a         *)
(* trailing ".+?": at least one more character.                            *)
(***************************************************************************)

Opt(w) == [opt |-> TRUE, alts |-> {[lit |-> w, more |-> FALSE]}]
Req(w) == [opt |-> FALSE, alts |-> {[lit |-> w, more |-> FALSE]}]

SI == <<"s", "i", "_">>
MESH == <<"m", "e", "s", "h">>

RE_FRAME == <<Opt(SI), Req(<<"f", "r", "a", "m", "e">>)>>
RE_TRANSFORM_MATRIX ==
  <<Opt(SI), Opt(<<"f", "r", "a", "m", "e">>), Opt(<<"t", "r", "a", "n", "s", "f", "o", "r", "m">>), Req(<<"m", "a", "t", "r", "i", "x">>)>>
RE_POSE_MATRIX ==
  <<Opt(SI), Opt(<<"f", "r", "a", "m", "e">>), Req(<<"b", "a", "s", "e">>), Opt(<<"p", "o", "s", "e">>), Req(<<"m", "a", "t", "r", "i", "x">>)>>
RE_MESH == <<Opt(SI), Req(MESH)>>
RE_MESH_MATERIALLIST == <<Opt(SI), Opt(MESH), Req(<<"m", "a", "t", "e", "r", "i", "a", "l", "l", "i", "s", "t">>)>>
RE_MESH_MATERIAL == <<Opt(SI), Opt(MESH), Req(<<"m", "a", "t", "e", "r", "i", "a", "l">>)>>
RE_MESH_TEXTURE ==
  <<Opt(SI),
    [opt |-> FALSE, alts |-> {[lit |-> <<"t", "e", "x", "t", "u", "r", "e">>, more |-> FALSE],
                              [lit |-> <<"t", "e", "x", "t", "u", "r", "e", "f", "i", "l", "e", "n", "a", "m", "e">>, more |-> FALSE]}],
    Opt(<<"2", "d">>)>>
RE_MESH_NORMALS == <<Opt(SI), Opt(MESH), Req(<<"n", "o", "r", "m", "a", "l", "s">>)>>
RE_MESH_VERTEX_COLORS == <<Opt(SI), Opt(MESH), Req(<<"v", "e", "r", "t", "e", "x", "c", "o", "l", "o", "r", "s">>)>>
RE_MESH_UVMAP == <<Opt(SI), Opt(MESH), Req(<<"t", "e", "x", "t", "u", "r", "e", "c", "o", "o", "r", "d", "s">>)>>
RE_ANIMATION_SET == <<Opt(SI), Req(<<"a", "n", "i", "m", "a", "t", "i", "o", "n", "s", "e", "t">>)>>
RE_ANIMATION == <<Opt(SI), Req(<<"a", "n", "i", "m", "a", "t", "i", "o", "n">>)>>
RE_ANIMATION_KEY == <<Opt(SI), Req(<<"a", "n", "i", "m", "a", "t", "i", "o", "n", "k", "e", "y">>)>>
RE_ENVELOPE_LIST == <<Opt(SI), Req(<<"e", "n", "v", "e", "l", "o", "p", "e", "l", "i", "s", "t">>)>>
RE_ENVELOPE == <<Opt(SI), Req(<<"e", "n", "v", "e", "l", "o", "p", "e">>)>>
RE_LIGHT == <<Opt(SI), Req(<<"l", "i", "g", "h", "t">>)>>
RE_CAMERA == <<Opt(SI), Req(<<"c", "a", "m", "e", "r", "a">>)>>
RE_JUNK ==
  <<Opt(SI),
    [opt |-> FALSE, alts |-> {[lit |-> <<"f", "o", "g">>, more |-> FALSE],
                              [lit |-> <<"a", "m", "b", "i", "e", "n", "c", "e">>, more |-> FALSE],
                              [lit |-> <<"a", "n", "g", "l", "e">>, more |-> FALSE],
                              [lit |-> <<"c", "o", "o", "r", "d">>, more |-> TRUE],
                              [lit |-> <<"a", "n", "i", "m", "a", "t", "i", "o", "n", "p", "a", "r", "a", "m">>, more |-> TRUE]}]>>

DEFAULT_RE_SKIP == {RE_JUNK}

HasAt(w, i, l) == i + Len(l) <= Len(w) /\ SubSeq(w, i + 1, i + Len(l)) = l

\* Whether groups k.. of the pattern match w from offset i (w case-folded).
RECURSIVE MatchFrom(_, _, _, _)
MatchFrom(pattern, k, w, i) ==
  IF k > Len(pattern) THEN TRUE
  ELSE \/ pattern[k].opt /\ MatchFrom(pattern, k + 1, w, i)
       \/ \E a \in pattern[k].alts :
            /\ HasAt(w, i, a.lit)
            /\ a.more => i + Len(a.lit) < Len(w) /\ w[i + Len(a.lit) + 1] # "\n"
            /\ MatchFrom(pattern, k + 1, w,
                         i + Len(a.lit) + (IF a.more THEN 1 ELSE 0))

\* r.match(block_type) for a block_type that is a word.
Match(pattern, block_type) == MatchFrom(pattern, 1, FoldWord(block_type), 0)

(***************************************************************************)
(* The header signature: RE_HEADER on " ".join(three words)                *)
(***************************************************************************)

Whitespace == {" ", "\t", "\n", "\r"}

RECURSIVE SkipWs(_, _)
SkipWs(s, i) ==
  IF i < Len(s) /\ s[i + 1] \in Whitespace THEN SkipWs(s, i + 1) ELSE i

\* A header check that reads "xsi" and stops there.
HeaderMatchesXsi(header) ==
  The({HasAt(s, SkipWs(s, 0), <<"x", "s", "i">>) : s \in {FoldWord(header)}})

\* ^\s*xsi\s*0101txt\s*0032\s*$ with (?i)
HeaderMatches(header) ==
  The({
  The({
  The({
  The({
    /\ HasAt(s, i1, <<"x", "s", "i">>)
    /\ HasAt(s, i2, <<"0", "1", "0", "1", "t", "x", "t">>)
    /\ HasAt(s, i3, <<"0", "0", "3", "2">>)
    /\ SkipWs(s, i3 + 4) = Len(s)
    : i3 \in {SkipWs(s, i2 + 7)}})
    : i2 \in {SkipWs(s, i1 + 3)}})
    : i1 \in {SkipWs(s, 0)}})
    : s \in {FoldWord(header)}})

(***************************************************************************)
(* int(), float() and Reader.int_float on a word.  The numerals taken are  *)
(* the decimal ones, [sign] digits [. digits], with Python's single        *)
(* underscores between digits and surrounding blanks; exponents and        *)
(* inf/nan are written in no file of this model.                           *)
(***************************************************************************)

MICRO == 1000000

RECURSIVE StripLeft(_)
StripLeft(w) == IF w # <<>> /\ Head(w) \in Whitespace THEN StripLeft(Tail(w)) ELSE w

RECURSIVE StripRight(_)
StripRight(w) ==
  IF w # <<>> /\ w[Len(w)] \in Whitespace
    THEN StripRight(SubSeq(w, 1, Len(w) - 1)) ELSE w

Strip(w) == StripRight(StripLeft(w))

\* A digit string as int() and float() take it: digits, single underscores between.
IsDigitString(s) ==
  /\ s # <<>>
  /\ \A k \in 1..Len(s) : s[k] \in Digits \cup {"_"}
  /\ s[1] \in Digits /\ s[Len(s)] \in Digits
  /\ \A k \in 1..(Len(s) - 1) : ~(s[k] = "_" /\ s[k + 1] = "_")

RECURSIVE NatOf(_, _)
NatOf(s, acc) ==
  IF s = <<>> THEN acc
  ELSE IF Head(s) = "_" THEN NatOf(Tail(s), acc)
  ELSE NatOf(Tail(s), 10 * acc + DigitVal[Head(s)])

DigitsOnly(s) == SelectSeq(s, LAMBDA c : c \in Digits)

RECURSIVE Pow10(_)
Pow10(n) == IF n <= 0 THEN 1 ELSE 10 * Pow10(n - 1)

\* The fraction digits as millionths (digits past the sixth are dropped).
FracMicro(s) ==
  The({NatOf(d, 0) * Pow10(6 - Len(d))
    : d \in {Slice(DigitsOnly(s), 0, 6)}})

Unsigned(s) == IF s # <<>> /\ s[1] \in {"-", "+"} THEN Tail(s) ELSE s
Negative(s) == s # <<>> /\ s[1] = "-"

DotAt(s) ==
  IF \E k \in 1..Len(s) : s[k] = "."
    THEN CHOOSE k \in 1..Len(s) : s[k] = "." /\ \A j \in 1..(k - 1) : s[j] # "."
    ELSE 0

\* int(word): [ok, val]; ok FALSE is ValueError.
IntOf(word) ==
  The({
  The({
    IF IsDigitString(u)
      THEN [ok |-> TRUE, val |-> (IF Negative(s) THEN -1 ELSE 1) * NatOf(u, 0)]
      ELSE [ok |-> FALSE, val |-> 0]
    : u \in {Unsigned(s)}})
    : s \in {Strip(word)}})

\* float(word), in millionths: [ok, val]; ok FALSE is ValueError.
FloatOf(word) ==
  The({
  The({
  The({
  The({
  The({
    IF /\ ip # <<>> \/ fp # <<>>
       /\ ip # <<>> => IsDigitString(ip)
       /\ fp # <<>> => IsDigitString(fp)
      THEN [ok |-> TRUE,
            val |-> (IF Negative(s) THEN -1 ELSE 1)
                      * (NatOf(ip, 0) * MICRO + FracMicro(fp))]
      ELSE [ok |-> FALSE, val |-> 0]
    : fp \in {IF d = 0 THEN <<>> ELSE SubSeq(u, d + 1, Len(u))}})
    : ip \in {IF d = 0 THEN u ELSE SubSeq(u, 1, d - 1)}})
    : d \in {DotAt(u)}})
    : u \in {Unsigned(s)}})
    : s \in {Strip(word)}})

\* int(x) of a float: truncation toward zero.
Trunc(micro) == IF micro >= 0 THEN micro \div MICRO ELSE -((-micro) \div MICRO)

int_float(word) ==
  The({
    IF x.ok THEN [ok |-> TRUE, val |-> Trunc(x.val)] ELSE x
    : x \in {FloatOf(word)}})

\* data_type(word) for the data types the Reader asks for.
Convert(data_type, word) ==
  CASE data_type = "str" -> [ok |-> TRUE, val |-> word]
    [] data_type = "int" -> IntOf(word)
    [] data_type = "float" -> FloatOf(word)
    [] data_type = "int_float" -> int_float(word)

(***************************************************************************)
(* Reader.parse_type, parse_types, parse_3d_data.  err is "" or the name   *)
(* of the exception raised.                                                *)
(***************************************************************************)

parse_type(f, p, data_type) ==
  The({
    IF w.kind # "word" THEN [err |-> "XSIParseError", val |-> 0, pos |-> w.pos]
    ELSE The({
           IF v.ok THEN [err |-> "", val |-> v.val, pos |-> w.pos]
           ELSE [err |-> "XSIParseError", val |-> 0, pos |-> w.pos]
           : v \in {Convert(data_type, w.word)}})
    : w \in {parse_word(f, p)}})

RECURSIVE ParseTypesFrom(_, _, _, _)
ParseTypesFrom(f, p, types, segments) ==
  IF types = <<>> THEN [err |-> "", val |-> segments, pos |-> p]
  ELSE The({
         IF r.err # "" THEN [err |-> r.err, val |-> segments, pos |-> r.pos]
         ELSE ParseTypesFrom(f, r.pos, Tail(types), Append(segments, r.val))
         : r \in {parse_type(f, p, Head(types))}})

parse_types(f, p, types) == ParseTypesFrom(f, p, types, <<>>)

\* (data_type,) * count: the empty tuple for count <= 0.
Times(data_type, count) == [k \in 1..count |-> data_type]

\* "for index in range(n): vertices.append(self.parse_types(*vector))"
RECURSIVE ReadVectors(_, _, _, _, _)
ReadVectors(f, p, n, vector, acc) ==
  IF n <= 0 THEN [err |-> "", val |-> acc, pos |-> p]
  ELSE The({
         IF r.err # "" THEN [err |-> r.err, val |-> acc, pos |-> r.pos]
         ELSE ReadVectors(f, r.pos, n - 1, vector, Append(acc, r.val))
         : r \in {parse_types(f, p, vector)}})

\* One face: [index,] count, then count ints.
ReadFace(f, p, faces_are_indexed) ==
  The({
        IF h.err # "" THEN h
        ELSE parse_types(f, h.pos, Times("int", h.val[Len(h.val)]))
    : h \in {parse_types(f, p, IF faces_are_indexed THEN <<"int", "int">> ELSE <<"int">>)}})

RECURSIVE ReadFaces(_, _, _, _, _)
ReadFaces(f, p, n, faces_are_indexed, acc) ==
  IF n <= 0 THEN [err |-> "", val |-> acc, pos |-> p]
  ELSE The({
         IF r.err # "" THEN [err |-> r.err, val |-> acc, pos |-> r.pos]
         ELSE ReadFaces(f, r.pos, n - 1, faces_are_indexed, Append(acc, r.val))
         : r \in {ReadFace(f, p, faces_are_indexed)}})

\* val is <<vertices, faces>>.
parse_3d_data(f, p, vector, faces_are_indexed) ==
  The({
    IF nv.err # "" THEN [err |-> nv.err, val |-> <<>>, pos |-> nv.pos]
    ELSE
  The({
    IF vs.err # "" THEN [err |-> vs.err, val |-> <<>>, pos |-> vs.pos]
    ELSE
  The({
    IF nf.err # "" THEN [err |-> nf.err, val |-> <<>>, pos |-> nf.pos]
    ELSE
  The({
    IF fs.err # "" THEN [err |-> fs.err, val |-> <<>>, pos |-> fs.pos]
    ELSE [err |-> "", val |-> <<vs.val, fs.val>>, pos |-> fs.pos]
    : fs \in {ReadFaces(f, nf.pos, nf.val, faces_are_indexed, <<>>)}})
    : nf \in {parse_type(f, vs.pos, "int_float")}})
    : vs \in {ReadVectors(f, nv.pos, nv.val, vector, <<>>)}})
    : nv \in {parse_type(f, p, "int_float")}})

(***************************************************************************)
(* State                                                                   *)
(***************************************************************************)

VARIABLES
  RENAME_DUPLICATE_NAMED_FRAMES,  \* module flag
  DUPLICATE_FRAME_NOEXCEPT,       \* module flag
  ALLOW_PRINT,                    \* module flag
  re_skip,      \* Reader.re_skip: a set of patterns
  file,         \* Reader.f: the characters of the stream
  pos,          \* the stream position: the index of the next character
  stack,        \* the active block handlers, innermost last
  status,       \* "api", "start", "running", "done", or the exception raised
  heap,         \* the Frame objects, by identity (1..Len(heap))
  xsi,          \* the XSI object: frame_table, lights, cameras, frames
  log,          \* what the module has printed
  input,        \* what the file was written from: a header and blocks of the pool
  call,         \* the last call a client made on the graph and what it raised
  written       \* the graph the Writer was given, None before it has run

vars == <<RENAME_DUPLICATE_NAMED_FRAMES, DUPLICATE_FRAME_NOEXCEPT, ALLOW_PRINT,
          re_skip, file, pos, stack, status, heap, xsi, log, input, call,
          written>>

flags == <<RENAME_DUPLICATE_NAMED_FRAMES, DUPLICATE_FRAME_NOEXCEPT, ALLOW_PRINT, re_skip>>

\* The state as one record, for the handlers to take and give.
Cur ==
  [RENAME_DUPLICATE_NAMED_FRAMES |-> RENAME_DUPLICATE_NAMED_FRAMES,
   DUPLICATE_FRAME_NOEXCEPT |-> DUPLICATE_FRAME_NOEXCEPT,
   ALLOW_PRINT |-> ALLOW_PRINT, re_skip |-> re_skip, f |-> file,
   status |-> status, pos |-> pos, stack |-> stack, heap |-> heap,
   xsi |-> xsi, log |-> log]

Becomes(m) ==
  /\ status' = m.status
  /\ pos' = m.pos
  /\ stack' = m.stack
  /\ heap' = m.heap
  /\ xsi' = m.xsi
  /\ log' = m.log
  /\ UNCHANGED <<flags, file, input, call, written>>

Raise(m, exception, p) == [m EXCEPT !.status = exception, !.pos = p]

\* "if ALLOW_PRINT: print(...)"
Log(m, msg, arg) ==
  IF m.ALLOW_PRINT THEN [m EXCEPT !.log = Append(@, <<msg, arg>>)] ELSE m

\* a bare print(...)
LogAlways(m, msg, arg) == [m EXCEPT !.log = Append(@, <<msg, arg>>)]

(***************************************************************************)
(* The scene graph classes                                                 *)
(***************************************************************************)

EmptyTable == [n \in {} |-> 0]

\* XSI.__init__ without a filepath
NewXSI == [frame_table |-> EmptyTable, lights |-> <<>>, cameras |-> <<>>,
           frames |-> <<>>]

\* Frame.__init__; parent 0 is None, frames holds the identities of the
\* children. The constructor sets no xsi: -1 is the attribute not set, 0 the
\* XSI of the model.
NewFrame(name) ==
  [name |-> name, is_bone |-> FALSE, transform |-> None, pose |-> None,
   mesh |-> None, parent |-> 0, xsi |-> -1, frames |-> <<>>, animation_keys |-> <<>>,
   envelopes |-> <<>>]

\* self.xsi of a container: the XSI itself, or the xsi of the Frame.
xsi_of(m, container) == IF container = 0 THEN 0 ELSE m.heap[container].xsi

\* The new Frame of add_frame with its two back-references set.
AddedFrame(m, container, name) ==
  [NewFrame(name) EXCEPT !.parent = container, !.xsi = xsi_of(m, container)]

\* add_frame without the test of the frame table
add_frame_unchecked(m, container, name) ==
  The({
    [m EXCEPT
       !.heap = IF container = 0 THEN Append(m.heap, AddedFrame(m, container, name))
                ELSE [Append(m.heap, AddedFrame(m, container, name))
                        EXCEPT ![container].frames = Append(@, id)],
       !.xsi.frames = IF container = 0 THEN Append(@, id) ELSE @,
       !.xsi.frame_table = (name :> id) @@ @]
    : id \in {Len(m.heap) + 1}})

\* add_frame without the two assignments to the new Frame
add_frame_unreferenced(m, container, name) ==
  IF name \in DOMAIN m.xsi.frame_table /\ ~m.DUPLICATE_FRAME_NOEXCEPT
    THEN Raise(m, "DuplicateFrame", m.pos)
  ELSE
    The({
      [m EXCEPT
         !.heap = IF container = 0 THEN Append(m.heap, NewFrame(name))
                  ELSE [Append(m.heap, NewFrame(name))
                          EXCEPT ![container].frames = Append(@, id)],
         !.xsi.frames = IF container = 0 THEN Append(@, id) ELSE @,
         !.xsi.frame_table = (name :> id) @@ @]
      : id \in {Len(m.heap) + 1}})

\* _FrameContainer.add_frame on the XSI (container 0) or on the Frame container.
add_frame(m, container, name) ==
  IF name \in DOMAIN m.xsi.frame_table /\ ~m.DUPLICATE_FRAME_NOEXCEPT
    THEN Raise(m, "DuplicateFrame", m.pos)
  ELSE
    The({
    The({
      [m EXCEPT
         !.heap = IF container = 0 THEN heap1
                  ELSE [heap1 EXCEPT ![container].frames = Append(@, id)],
         !.xsi.frames = IF container = 0 THEN Append(@, id) ELSE @,
         !.xsi.frame_table = (name :> id) @@ @]
      : heap1 \in {Append(m.heap, AddedFrame(m, container, name))}})
      : id \in {Len(m.heap) + 1}})

\* Matrix.__init__ with four rows given
Matrix(right, up, front, posit) ==
  [right |-> right, up |-> up, front |-> front, posit |-> posit]

\* Mesh.__init__
NewMesh(name) ==
  [name |-> name, vertices |-> <<>>, faces |-> <<>>,
   normal_vertices |-> <<>>, normal_faces |-> <<>>,
   uv_vertices |-> <<>>, uv_faces |-> <<>>, face_materials |-> <<>>,
   vertex_colors |-> <<>>, vertex_color_faces |-> <<>>]

DEFAULT_DIFFUSE == <<700000, 700000, 700000, 1000000>>
DEFAULT_SPECULAR == <<350000, 350000, 350000>>
DEFAULT_EMISSIVE == <<0, 0, 0>>
DEFAULT_AMBIENT == <<500000, 500000, 500000>>
DEFAULT_HARDNESS == 200000000
DEFAULT_SHADING_TYPE == 2

\* Material(): every field at its default
DefaultMaterial ==
  [diffuse |-> DEFAULT_DIFFUSE, hardness |-> DEFAULT_HARDNESS,
   specular |-> DEFAULT_SPECULAR, ambient |-> DEFAULT_AMBIENT,
   emissive |-> DEFAULT_EMISSIVE, shading_type |-> DEFAULT_SHADING_TYPE,
   texture |-> None]

\* Material.__eq__: every field compared
MaterialEq(a, b) ==
  /\ a.texture = b.texture
  /\ a.diffuse = b.diffuse
  /\ a.hardness = b.hardness
  /\ a.specular = b.specular
  /\ a.ambient = b.ambient
  /\ a.emissive = b.emissive
  /\ a.shading_type = b.shading_type

\* The index of the first entry of materials equal to material, 0 if none.
IndexOf(materials, material) ==
  IF \E k \in 1..Len(materials) : MaterialEq(materials[k], material)
    THEN CHOOSE k \in 1..Len(materials) :
           /\ MaterialEq(materials[k], material)
           /\ \A j \in 1..(k - 1) : ~MaterialEq(materials[j], material)
    ELSE 0

\* Mesh.get_material_indices: <<indices, materials>>, the indices 0-based.
RECURSIVE MaterialIndices(_, _, _)
MaterialIndices(face_materials, indices, materials) ==
  IF face_materials = <<>> THEN <<indices, materials>>
  ELSE
    The({
    The({
      MaterialIndices(Tail(face_materials),
                      Append(indices, IndexOf(materials2, material) - 1),
                      materials2)
      : materials2 \in {IF IndexOf(materials, material) = 0
          THEN Append(materials, material) ELSE materials}})
      : material \in {Head(face_materials)}})

\* a material per face, none shared
get_material_indices_unshared(mesh) ==
  <<[k \in 1..Len(mesh.face_materials) |-> k - 1], mesh.face_materials>>

get_material_indices(mesh) == MaterialIndices(mesh.face_materials, <<>>, <<>>)

TYPE_SIZE == <<4, 3, 3, 3>>

\* AnimationKey.__init__ raises ValueError for a key type outside range(4).
AnimationKeyRaises(key_type) == key_type \notin 0..3

AnimationKey(key_type) ==
  [key_type |-> key_type, keys |-> <<>>, vector_size |-> TYPE_SIZE[key_type + 1]]

\* add_key without the size check
add_key_unchecked(key, keyframe, vector) ==
  [err |-> "", key |-> [key EXCEPT !.keys = Append(@, <<keyframe, vector>>)]]

\* AnimationKey.add_key: [err, key]
add_key(key, keyframe, vector) ==
  IF Len(vector) # key.vector_size
    THEN [err |-> "ValueError", key |-> key]
    ELSE [err |-> "", key |-> [key EXCEPT !.keys = Append(@, <<keyframe, vector>>)]]

\* Envelope.__init__: "vertices if vertices else []"
Envelope(bone, vertices) == [bone |-> bone, vertices |-> vertices]

\* No call made yet.
NoCall == [op |-> "none", raised |-> ""]

(***************************************************************************)
(* The Reader's handlers that scan no block headers.  Each takes the state *)
(* record m with m.pos just past the block's open brace and gives the      *)
(* state record after the handler returned or raised.                      *)
(***************************************************************************)

Floats(n) == Times("float", n)

\* self.skip_block() at m.pos (its return value is used by no caller)
Skip(m) ==
  The({
    IF r.kind = "toolong" THEN Raise(m, "XSIParseError", r.pos)
    ELSE [m EXCEPT !.pos = r.pos]
    : r \in {skip_block(m.f, m.pos)}})

\* "self.clean(parameters[0]) if parameters else Reader.UNNAMED_FRAME_NAME"
NameOf(parameters) ==
  IF parameters # <<>> THEN Clean(parameters[1]) ELSE UNNAMED_FRAME_NAME

PointLight(name, rgb, location_xyz) ==
  [name |-> name, rgb |-> rgb,
   transform |-> Matrix(<<MICRO, 0, 0, 0>>, <<0, MICRO, 0, 0>>, <<0, 0, MICRO, 0>>,
                        location_xyz \o <<MICRO>>)]

read_light(m, parameters) ==
  The({
    IF light_type.err # "" THEN Raise(m, light_type.err, light_type.pos)
    ELSE IF light_type.val # 0 THEN Skip([m EXCEPT !.pos = light_type.pos])
    ELSE
  The({
    IF rgb.err # "" THEN Raise(m, rgb.err, rgb.pos)
    ELSE
  The({
    IF location_xyz.err # "" THEN Raise(m, location_xyz.err, location_xyz.pos)
    ELSE Skip([m EXCEPT !.pos = location_xyz.pos,
                        !.xsi.lights = Append(@, PointLight(NameOf(parameters), rgb.val,
                                                            location_xyz.val))])
    : location_xyz \in {parse_types(m.f, rgb.pos, Floats(3))}})
    : rgb \in {parse_types(m.f, light_type.pos, Floats(3))}})
    : light_type \in {parse_type(m.f, m.pos, "int_float")}})

\* The nine floats are location, look-at, roll, near plane, far plane.
read_camera(m, parameters) ==
  The({
    IF r.err # "" THEN Raise(m, r.err, r.pos)
    ELSE Skip([m EXCEPT !.pos = r.pos,
                        !.xsi.cameras = Append(@, [name |-> NameOf(parameters),
                                                   data |-> r.val])])
    : r \in {parse_types(m.f, m.pos, Floats(9))}})

\* read_matrix: [m, val]; val is the matrix when m.status is unchanged.
read_matrix(m) ==
  The({
    IF r.err # "" THEN [m |-> Raise(m, r.err, r.pos), val |-> None]
    ELSE [m |-> Skip([m EXCEPT !.pos = r.pos]),
          val |-> Matrix(SubSeq(r.val, 1, 4), SubSeq(r.val, 5, 8),
                         SubSeq(r.val, 9, 12), SubSeq(r.val, 13, 16))]
    : r \in {parse_types(m.f, m.pos, Floats(16))}})

\* The loop of read_animation_key: [err, key, pos]; err "ValueError" is
\* add_key's, "XSIParseError" is parse_type's.
RECURSIVE ReadKeys(_, _, _, _)
ReadKeys(f, p, n, key) ==
  IF n <= 0 THEN [err |-> "", key |-> key, pos |-> p]
  ELSE
    The({
      IF keyframe.err # "" THEN [err |-> keyframe.err, key |-> key, pos |-> keyframe.pos]
      ELSE
    The({
      IF size.err # "" THEN [err |-> size.err, key |-> key, pos |-> size.pos]
      ELSE
    The({
      IF vector.err # "" THEN [err |-> vector.err, key |-> key, pos |-> vector.pos]
      ELSE
    The({
      IF added.err # "" THEN [err |-> added.err, key |-> key, pos |-> vector.pos]
      ELSE ReadKeys(f, vector.pos, n - 1, added.key)
      : added \in {add_key(key, keyframe.val, vector.val)}})
      : vector \in {parse_types(f, size.pos, Floats(size.val))}})
      : size \in {parse_type(f, keyframe.pos, "int")}})
      : keyframe \in {parse_type(f, p, "int_float")}})

\* read_animation_key: a ValueError is caught and printed, then skip_block.
read_animation_key(m, frame) ==
  The({
    IF key_type.err # "" THEN Raise(m, key_type.err, key_type.pos)
    ELSE IF AnimationKeyRaises(key_type.val)
      THEN Skip(Log([m EXCEPT !.pos = key_type.pos], "ValueError", <<>>))
    ELSE
  The({
    IF key_count.err # "" THEN Raise(m, key_count.err, key_count.pos)
    ELSE
  The({
    IF r.err = "ValueError"
      THEN Skip(Log([m EXCEPT !.pos = r.pos], "ValueError", <<>>))
    ELSE IF r.err # "" THEN Raise(m, r.err, r.pos)
    ELSE Skip([m EXCEPT !.pos = r.pos,
                        !.heap[frame].animation_keys = Append(@, r.key)])
    : r \in {ReadKeys(m.f, key_count.pos, key_count.val, AnimationKey(key_type.val))}})
    : key_count \in {parse_type(m.f, key_type.pos, "int_float")}})
    : key_type \in {parse_type(m.f, m.pos, "int_float")}})

\* "envelope.add_weight(*self.parse_types(int, float))", weight_count times
RECURSIVE ReadWeights(_, _, _, _)
ReadWeights(f, p, n, vertices) ==
  IF n <= 0 THEN [err |-> "", val |-> vertices, pos |-> p]
  ELSE
    The({
      IF r.err # "" THEN [err |-> r.err, val |-> vertices, pos |-> r.pos]
      ELSE ReadWeights(f, r.pos, n - 1, Append(vertices, r.val))
      : r \in {parse_types(f, p, <<"int", "float">>)}})

\* read_envelope once both names are found: the bone is marked, the weight
\* count is read and the envelope is added to the frame before its weights
\* are read into it.
ReadEnvelopeWeights(m, frame, bone) ==
  The({
  The({
    IF weight_count.err # "" THEN Raise(m3, weight_count.err, weight_count.pos)
    ELSE
  The({
  The({
  The({
    IF ws.err # "" THEN Raise(m5, ws.err, ws.pos)
    ELSE Skip([m5 EXCEPT !.pos = ws.pos])
    : m5 \in {[m4 EXCEPT !.heap[frame].envelopes[Len(m4.heap[frame].envelopes)].vertices
                   = ws.val]}})
    : ws \in {ReadWeights(m.f, weight_count.pos, weight_count.val, <<>>)}})
    : m4 \in {[m3 EXCEPT !.heap[frame].envelopes = Append(@, Envelope(bone, <<>>))]}})
    : weight_count \in {parse_type(m.f, m.pos, "int_float")}})
    : m3 \in {[m EXCEPT !.heap[bone].is_bone = TRUE]}})

read_envelope(m) ==
  The({
    IF w1.err # "" THEN Raise(m, w1.err, w1.pos)
    ELSE IF CleanRaises(w1.val) THEN Raise(m, "IndexError", w1.pos)
    ELSE
  The({
    IF w2.err # "" THEN Raise(m, w2.err, w2.pos)
    ELSE IF CleanRaises(w2.val) THEN Raise(m, "IndexError", w2.pos)
    ELSE
  The({
  The({
  The({
  The({
  The({
  The({
    IF frame_name \notin DOMAIN table \/ bone_name \notin DOMAIN table
      THEN Skip(m2)
      ELSE ReadEnvelopeWeights(m2, table[frame_name], table[bone_name])
    : m2 \in {IF bone_name \notin DOMAIN table
        THEN Log(m1, "Invalid Bone Used By Envelope", bone_name) ELSE m1}})
    : m1 \in {IF frame_name \notin DOMAIN table
        THEN Log(m0, "Invalid Frame Used By Envelope", frame_name) ELSE m0}})
    : m0 \in {[m EXCEPT !.pos = w2.pos]}})
    : table \in {m.xsi.frame_table}})
    : bone_name \in {Clean(w2.val)}})
    : frame_name \in {Clean(w1.val)}})
    : w2 \in {parse_type(m.f, w1.pos, "str")}})
    : w1 \in {parse_type(m.f, m.pos, "str")}})

(***************************************************************************)
(* The Reader's block loops.  Each handler that iterates over              *)
(* parse_block_headers() is an activation on the stack; XStep(m) is one    *)
(* iteration of the loop of handler X, or the handler's code after the     *)
(* loop when the scanner returns.                                          *)
(***************************************************************************)

RENAME_LIMIT == 9999

Top(m) == m.stack[Len(m.stack)]

Push(m, activation) == [m EXCEPT !.stack = Append(@, activation)]

Pop(m) == [m EXCEPT !.stack = SubSeq(@, 1, Len(@) - 1)]

\* "any(r.match(block_type) for r in self.re_skip)"
Skipped(m, block_type) == \E r \in m.re_skip : Match(r, block_type)

\* The rename loop left out: the name is taken as declared.
RenameLoopOff(m, name, index) == [m |-> m, name |-> name]

\* A rename that appends one underscore, once.
RenameLoopOnce(m, name, index) ==
  IF name \notin DOMAIN m.xsi.frame_table THEN [m |-> m, name |-> name]
  ELSE [m |-> Log(m, "Duplicate Frame Renamed", name), name |-> name \o <<"_">>]

\* The rename loop of read_frame: [m, name]
RECURSIVE RenameLoop(_, _, _)
RenameLoop(m, name, index) ==
  IF index >= RENAME_LIMIT THEN [m |-> Raise(m, "XSIParseError", m.pos), name |-> name]
  ELSE IF name \notin DOMAIN m.xsi.frame_table THEN [m |-> m, name |-> name]
  ELSE RenameLoop(Log(m, "Duplicate Frame Renamed", name), name \o <<"_">>, index + 1)

\* read_frame up to its loop: the new frame's activation is pushed.
BeginFrame(m, parent_frame, parameters) ==
  The({
  The({
    IF renamed.m.status # m.status THEN renamed.m
    ELSE
  The({
    IF added.status # m.status THEN added
    ELSE Push(added, [ctx |-> "frame", frame |-> Len(added.heap)])
    : added \in {add_frame(renamed.m, parent_frame, renamed.name)}})
    : renamed \in {IF m.RENAME_DUPLICATE_NAMED_FRAMES
        THEN RenameLoop(m, name, 0) ELSE [m |-> m, name |-> name]}})
    : name \in {NameOf(parameters)}})

\* read_envelope_list up to its loop
BeginEnvelopeList(m) ==
  The({
    IF envelope_count.err # "" THEN Raise(m, envelope_count.err, envelope_count.pos)
    ELSE Push([m EXCEPT !.pos = envelope_count.pos],
              [ctx |-> "envelope_list", envelope_count |-> envelope_count.val])
    : envelope_count \in {parse_type(m.f, m.pos, "int_float")}})

BeginAnimationSet(m) == Push(m, [ctx |-> "animation_set"])

\* read_animation up to its loop
BeginAnimation(m, parameters) ==
  The({
  The({
    IF target.err # "" THEN Raise(m, target.err, target.pos)
    ELSE IF CleanRaises(target.val) THEN Raise(m, "IndexError", target.pos)
    ELSE
  The({
  The({
    IF frame_name \notin DOMAIN m.xsi.frame_table
      THEN Skip(Log(m1, "Invalid Frame Referenced By Animation", frame_name))
      ELSE Push(m1, [ctx |-> "animation", name |-> name,
                     frame |-> m.xsi.frame_table[frame_name]])
    : m1 \in {[m EXCEPT !.pos = target.pos]}})
    : frame_name \in {Clean(target.val)}})
    : target \in {parse_type(m.f, m.pos, "str")}})
    : name \in {NameOf(parameters)}})

\* read_mesh up to its loop
BeginMesh(m) ==
  The({
    IF d.err # "" THEN Raise(m, d.err, d.pos)
    ELSE Push([m EXCEPT !.pos = d.pos],
              [ctx |-> "mesh",
               mesh |-> [NewMesh(None) EXCEPT !.vertices = d.val[1],
                                              !.faces = d.val[2]]])
    : d \in {parse_3d_data(m.f, m.pos, Floats(3), FALSE)}})

\* read_material_list up to its loop
BeginMaterialList(m) ==
  The({
    IF material_count.err # "" THEN Raise(m, material_count.err, material_count.pos)
    ELSE
  The({
    IF material_face_count.err # ""
      THEN Raise(m, material_face_count.err, material_face_count.pos)
    ELSE
  The({
    IF material_face_indices.err # ""
      THEN Raise(m, material_face_indices.err, material_face_indices.pos)
    ELSE Push([m EXCEPT !.pos = material_face_indices.pos],
              [ctx |-> "material_list",
               material_count |-> material_count.val,
               material_face_indices |-> material_face_indices.val,
               materials |-> <<>>])
    : material_face_indices \in {parse_types(m.f, material_face_count.pos, Times("int", material_face_count.val))}})
    : material_face_count \in {parse_type(m.f, material_count.pos, "int_float")}})
    : material_count \in {parse_type(m.f, m.pos, "int_float")}})

\* read_material up to its loop: the six fields in the order they are read.
BeginMaterial(m) ==
  The({
    IF r.err # "" THEN Raise(m, r.err, r.pos)
    ELSE Push([m EXCEPT !.pos = r.pos],
              [ctx |-> "material",
               material |-> [diffuse |-> SubSeq(r.val, 1, 4),
                             hardness |-> r.val[5],
                             specular |-> SubSeq(r.val, 6, 8),
                             emissive |-> SubSeq(r.val, 9, 11),
                             shading_type |-> r.val[12],
                             ambient |-> SubSeq(r.val, 13, 15),
                             texture |-> None]])
    : r \in {parse_types(m.f, m.pos,
                  Floats(4) \o Floats(1) \o Floats(3) \o Floats(3)
                    \o <<"int_float">> \o Floats(3))}})

\* What every loop does with the scanner's answer h before it dispatches:
\* "none" when the block is to be dispatched on its type name.
LoopExit(h) ==
  CASE h.kind = "toolong" -> "XSIParseError"
    [] h.kind \in {"end", "eof"} -> "return"
    [] h.kind = "block" /\ h.name = None -> "TypeError"  \* r.match(None)
    [] OTHER -> "none"

\* Reader.read after the header
ReadBlock(m, block_type, parameters) ==
  IF Skipped(m, block_type) THEN Skip(m)
  ELSE IF Match(RE_LIGHT, block_type) THEN read_light(m, parameters)
  ELSE IF Match(RE_CAMERA, block_type) THEN read_camera(m, parameters)
  ELSE IF Match(RE_FRAME, block_type) THEN BeginFrame(m, 0, parameters)
  ELSE IF Match(RE_ANIMATION_SET, block_type) THEN BeginAnimationSet(m)
  ELSE IF Match(RE_ENVELOPE_LIST, block_type) THEN BeginEnvelopeList(m)
  ELSE Skip(Log(m, "Unknown Block In XSI", block_type))

ReadStep(m) ==
  The({
  The({
  The({
    CASE exit = "return" -> [Pop(m1) EXCEPT !.status = "done"]
      [] exit = "none" -> ReadBlock(m1, h.name.w, h.parameters)
      [] OTHER -> Raise(m1, exit, h.pos)
    : exit \in {LoopExit(h)}})
    : m1 \in {[m EXCEPT !.pos = h.pos]}})
    : h \in {parse_block_headers(m.f, m.pos)}})

\* Reader.read_frame
FrameBlock(m, block_type, parameters) ==
  IF Skipped(m, block_type) THEN Skip(m)
  ELSE IF Match(RE_TRANSFORM_MATRIX, block_type)
    THEN The({
           IF r.m.status # m.status THEN r.m
           ELSE [r.m EXCEPT !.heap[Top(m).frame].transform = r.val]
           : r \in {read_matrix(m)}})
  ELSE IF Match(RE_POSE_MATRIX, block_type)
    THEN The({
           IF r.m.status # m.status THEN r.m
           ELSE [r.m EXCEPT !.heap[Top(m).frame].pose = r.val]
           : r \in {read_matrix(m)}})
  ELSE IF Match(RE_MESH, block_type) THEN BeginMesh(m)
  ELSE IF Match(RE_FRAME, block_type) THEN BeginFrame(m, Top(m).frame, parameters)
  ELSE IF Match(RE_ANIMATION_SET, block_type) THEN BeginAnimationSet(m)
  ELSE IF Match(RE_ENVELOPE_LIST, block_type) THEN BeginEnvelopeList(m)
  ELSE Skip(Log(m, "Unknown Block In Frame", block_type))

FrameStep(m) ==
  The({
  The({
  The({
    CASE exit = "return" -> Pop(m1)
      [] exit = "none" -> FrameBlock(m1, h.name.w, h.parameters)
      [] OTHER -> Raise(m1, exit, h.pos)
    : exit \in {LoopExit(h)}})
    : m1 \in {[m EXCEPT !.pos = h.pos]}})
    : h \in {parse_block_headers(m.f, m.pos)}})

\* Reader.read_mesh: the three 3D-data blocks assign, then skip_block.
Read3D(m, vector, vfield, ffield) ==
  The({
    IF d.err # "" THEN Raise(m, d.err, d.pos)
    ELSE Skip([m EXCEPT !.pos = d.pos,
                        !.stack[Len(m.stack)].mesh[vfield] = d.val[1],
                        !.stack[Len(m.stack)].mesh[ffield] = d.val[2]])
    : d \in {parse_3d_data(m.f, m.pos, vector, TRUE)}})

MeshBlock(m, block_type) ==
  IF Skipped(m, block_type) THEN Skip(m)
  ELSE IF Match(RE_MESH_MATERIALLIST, block_type) THEN BeginMaterialList(m)
  ELSE IF Match(RE_MESH_NORMALS, block_type)
    THEN Read3D(m, Floats(3), "normal_vertices", "normal_faces")
  ELSE IF Match(RE_MESH_UVMAP, block_type)
    THEN Read3D(m, Floats(2), "uv_vertices", "uv_faces")
  ELSE IF Match(RE_MESH_VERTEX_COLORS, block_type)
    THEN Read3D(m, Floats(4), "vertex_colors", "vertex_color_faces")
  ELSE Skip(LogAlways(m, "Unknown Block In Mesh", block_type))

\* "frame.mesh = self.read_mesh()": the caller is the read_frame below.
MeshReturn(m) ==
  The({[m1 EXCEPT !.heap[Top(m1).frame].mesh = Top(m).mesh]
    : m1 \in {Pop(m)}})

MeshStep(m) ==
  The({
  The({
  The({
    CASE exit = "return" -> MeshReturn(m1)
      [] exit = "none" -> MeshBlock(m1, h.name.w)
      [] OTHER -> Raise(m1, exit, h.pos)
    : exit \in {LoopExit(h)}})
    : m1 \in {[m EXCEPT !.pos = h.pos]}})
    : h \in {parse_block_headers(m.f, m.pos)}})

\* Reader.read_material_list
MaterialListBlock(m, block_type) ==
  IF Skipped(m, block_type) THEN Skip(m)
  ELSE IF Match(RE_MESH_MATERIAL, block_type) THEN BeginMaterial(m)
  ELSE Skip(Log(m, "Unknown Block In Mesh Material List", block_type))

\* No padding: the list is left as it was read.
PadMaterialsOff(m, materials, material_count) == [m |-> m, materials |-> materials]

\* "while len(materials) < material_count": [m, materials]
RECURSIVE PadMaterials(_, _, _)
PadMaterials(m, materials, material_count) ==
  IF Len(materials) >= material_count THEN [m |-> m, materials |-> materials]
  ELSE PadMaterials(Log(m, "Missing Material in Mesh Material List", Len(materials)),
                    Append(materials, DefaultMaterial), material_count)

\* materials[index] of a Python list: [ok, val]; ok FALSE is IndexError.
ListIndex(list, index) ==
  IF 0 <= index /\ index < Len(list) THEN [ok |-> TRUE, val |-> list[index + 1]]
  ELSE IF -Len(list) <= index /\ index < 0
    THEN [ok |-> TRUE, val |-> list[Len(list) + index + 1]]
  ELSE [ok |-> FALSE, val |-> None]

\* "for index in material_face_indices: mesh.face_materials.append(materials[index])"
\* on the mesh of the read_mesh activation k: the state record after it.
RECURSIVE AssignMaterials(_, _, _, _)
AssignMaterials(m, k, materials, indices) ==
  IF indices = <<>> THEN m
  ELSE The({
         IF ~x.ok THEN Raise(m, "IndexError", m.pos)
         ELSE AssignMaterials([m EXCEPT !.stack[k].mesh.face_materials
                                          = Append(@, x.val)],
                              k, materials, Tail(indices))
         : x \in {ListIndex(materials, Head(indices))}})

MaterialListReturn(m) ==
  The({
  The({
  The({
    IF m1.status # m.status THEN m1 ELSE Pop(m1)
    : m1 \in {AssignMaterials(padded.m, Len(m.stack) - 1, padded.materials,
                      a.material_face_indices)}})
    : padded \in {PadMaterials(m, a.materials, a.material_count)}})
    : a \in {Top(m)}})

MaterialListStep(m) ==
  The({
  The({
  The({
    CASE exit = "return" -> MaterialListReturn(m1)
      [] exit = "none" -> MaterialListBlock(m1, h.name.w)
      [] OTHER -> Raise(m1, exit, h.pos)
    : exit \in {LoopExit(h)}})
    : m1 \in {[m EXCEPT !.pos = h.pos]}})
    : h \in {parse_block_headers(m.f, m.pos)}})

\* Reader.read_material
MaterialBlock(m, block_type) ==
  IF Skipped(m, block_type) THEN Skip(m)
  ELSE IF Match(RE_MESH_TEXTURE, block_type)
    THEN The({
           IF t.err # "" THEN Raise(m, t.err, t.pos)
           ELSE Skip([m EXCEPT !.pos = t.pos,
                               !.stack[Len(m.stack)].material.texture =
                                  [none |-> FALSE, w |-> t.val]])
           : t \in {parse_type(m.f, m.pos, "str")}})
  ELSE Skip(Log(m, "Unknown Block In Material", block_type))

\* "materials.append(self.read_material())": the caller is the
\* read_material_list below.
MaterialReturn(m) ==
  The({
    [m1 EXCEPT !.stack[Len(m1.stack)].materials = Append(@, Top(m).material)]
    : m1 \in {Pop(m)}})

MaterialStep(m) ==
  The({
  The({
  The({
    CASE exit = "return" -> MaterialReturn(m1)
      [] exit = "none" -> MaterialBlock(m1, h.name.w)
      [] OTHER -> Raise(m1, exit, h.pos)
    : exit \in {LoopExit(h)}})
    : m1 \in {[m EXCEPT !.pos = h.pos]}})
    : h \in {parse_block_headers(m.f, m.pos)}})

\* Reader.read_animation_set
AnimationSetBlock(m, block_type, parameters) ==
  IF Skipped(m, block_type) THEN Skip(m)
  ELSE IF Match(RE_ANIMATION, block_type) THEN BeginAnimation(m, parameters)
  ELSE Skip(Log(m, "Unknown Block In Animation Set", block_type))

AnimationSetStep(m) ==
  The({
  The({
  The({
    CASE exit = "return" -> Pop(m1)
      [] exit = "none" -> AnimationSetBlock(m1, h.name.w, h.parameters)
      [] OTHER -> Raise(m1, exit, h.pos)
    : exit \in {LoopExit(h)}})
    : m1 \in {[m EXCEPT !.pos = h.pos]}})
    : h \in {parse_block_headers(m.f, m.pos)}})

\* Reader.read_animation, the found-frame branch
AnimationBlock(m, block_type) ==
  IF Skipped(m, block_type) THEN Skip(m)
  ELSE IF Match(RE_ANIMATION_KEY, block_type)
    THEN read_animation_key(m, Top(m).frame)
  ELSE Skip(Log(m, "Unknown Block In Animation", block_type))

AnimationStep(m) ==
  The({
  The({
  The({
    CASE exit = "return" -> Pop(m1)
      [] exit = "none" -> AnimationBlock(m1, h.name.w)
      [] OTHER -> Raise(m1, exit, h.pos)
    : exit \in {LoopExit(h)}})
    : m1 \in {[m EXCEPT !.pos = h.pos]}})
    : h \in {parse_block_headers(m.f, m.pos)}})

\* Reader.read_envelope_list
EnvelopeListBlock(m, block_type) ==
  IF Skipped(m, block_type) THEN Skip(m)
  ELSE IF Match(RE_ENVELOPE, block_type)
    THEN The({
           IF m1.status # m.status THEN m1
           ELSE [m1 EXCEPT !.stack[Len(m.stack)].envelope_count = @ - 1]
           : m1 \in {read_envelope(m)}})
  ELSE Skip(Log(m, "Unknown Block In Envelope List", block_type))

\* After the loop: the count check, then one more skip_block.
EnvelopeListReturn(m) ==
  The({IF m2.status # m.status THEN m2 ELSE Pop(m2)
    : m2 \in {Skip(IF Top(m).envelope_count # 0
             THEN Log(m, "Envelope Count Mismatch In Envelope List", <<>>) ELSE m)}})

EnvelopeListStep(m) ==
  The({
  The({
  The({
    CASE exit = "return" -> EnvelopeListReturn(m1)
      [] exit = "none" -> EnvelopeListBlock(m1, h.name.w)
      [] OTHER -> Raise(m1, exit, h.pos)
    : exit \in {LoopExit(h)}})
    : m1 \in {[m EXCEPT !.pos = h.pos]}})
    : h \in {parse_block_headers(m.f, m.pos)}})

(***************************************************************************)
(* Reader.__init__ and the first statements of Reader.read                 *)
(***************************************************************************)

Space == <<" ">>

ReadHeader(m) ==
  The({
    IF r.err # "" THEN Raise(m, r.err, r.pos)
    ELSE IF ~HeaderMatches(r.val[1] \o Space \o r.val[2] \o Space \o r.val[3])
      THEN Raise(m, "XSIParseError", r.pos)
    ELSE [m EXCEPT !.pos = r.pos, !.status = "running", !.stack = <<[ctx |-> "xsi"]>>]
    : r \in {parse_types(m.f, m.pos, <<"str", "str", "str">>)}})

(***************************************************************************)
(* The Reader as a state machine: one action per block loop                *)
(***************************************************************************)

\* One loop iteration of the innermost active handler.
Step(m) ==
  LET ctx == Top(m).ctx IN
  CASE ctx = "xsi" -> ReadStep(m)
    [] ctx = "frame" -> FrameStep(m)
    [] ctx = "mesh" -> MeshStep(m)
    [] ctx = "material_list" -> MaterialListStep(m)
    [] ctx = "material" -> MaterialStep(m)
    [] ctx = "animation_set" -> AnimationSetStep(m)
    [] ctx = "animation" -> AnimationStep(m)
    [] ctx = "envelope_list" -> EnvelopeListStep(m)

\* Reader.read from the state record of a Reader just constructed, to the
\* end: status "done" or the exception that left read().
RECURSIVE Run(_)
Run(m) == IF m.status = "running" THEN Run(Step(m)) ELSE m

Parse(m) == Run(ReadHeader(m))

At(ctx) == status = "running" /\ Top(Cur).ctx = ctx

read_header == status = "start" /\ Becomes(ReadHeader(Cur))

read == At("xsi") /\ Becomes(ReadStep(Cur))

read_frame == At("frame") /\ Becomes(FrameStep(Cur))

read_mesh == At("mesh") /\ Becomes(MeshStep(Cur))

read_material_list == At("material_list") /\ Becomes(MaterialListStep(Cur))

read_material == At("material") /\ Becomes(MaterialStep(Cur))

read_animation_set == At("animation_set") /\ Becomes(AnimationSetStep(Cur))

read_animation == At("animation") /\ Becomes(AnimationStep(Cur))

read_envelope_list == At("envelope_list") /\ Becomes(EnvelopeListStep(Cur))

\* Reader.__init__(f, bz2xsi_xsi=None, re_skip=skip) before it calls read(),
\* with the module flags as they are when it runs.
NewReader(f, rename, noexcept, allow_print, skip) ==
  [RENAME_DUPLICATE_NAMED_FRAMES |-> rename, DUPLICATE_FRAME_NOEXCEPT |-> noexcept,
   ALLOW_PRINT |-> allow_print, re_skip |-> skip, f |-> f,
   status |-> "start", pos |-> 1, stack |-> <<>>, heap |-> <<>>,
   xsi |-> NewXSI, log |-> <<>>]

(***************************************************************************)
(* The files the Reader is run on.  A file is a header followed by blocks  *)
(* of a pool: up to MaxBlocks of the general blocks, or fewer with one of  *)
(* the special blocks among them, or one of the mesh blocks alone.         *)
(***************************************************************************)

MaxBlocks == 3

Headers ==
  <<<<"x", "s", "i", " ", "0", "1", "0", "1", "t", "x", "t", " ", "0", "0", "3", "2", "\n">>,
    <<"X", "S", "I", " ", "0", "1", "0", "1", "T", "X", "T", " ", "0", "0", "3", "2", "\n">>,
    <<"x", "s", "i", " ", "0", "1", "0", "1", "t", "x", "t", " ", "0", "0", "3", "3", "\n">>,
    <<"x", "s", "i", " ", "0", "1", "0", "1", "t", "x", "t", " ">>>>

BlockFrameX ==
  <<"F", "r", "a", "m", "e", " ", "f", "r", "m", "-", "X", " ", "{", " ", "}", "\n">>

BlockFrameXY ==
  <<"F", "r", "a", "m", "e", " ", "X", " ", "{", " ", "F", "r", "a", "m", "e", " ", "Y", " ", "{", " ", "}", " ", "}", "\n">>

BlockUnknown ==
  <<"F", "o", "o", "B", "a", "r", " ", "{", " ", "1", ";", " ", "}", "\n">>

BlockUnknownAdj ==
  <<"F", "o", "o", "B", "a", "r", " ", "{", " ", "x", " ", "{", "1", ";", "}", "}", "\n">>

BlockLight ==
  <<"S", "I", "_", "L", "i", "g", "h", "t", " ", "l", " ", "{", " ", "0", ";", " ", "1", ";", "1", ";", "1", ";", ";", " ", "0", ";", "0", ";", "0", ";", ";", " ", "}", "\n">>

BlockAnimX ==
  <<"A", "n", "i", "m", "a", "t", "i", "o", "n", "S", "e", "t", " ", "{", " ", "A", "n", "i", "m", "a", "t", "i", "o", "n", " ", "a", "n", "i", "m", "-", "X", " ", "{", " ", "{", "f", "r", "m", "-", "X", "}", " ", "S", "I", "_", "A", "n", "i", "m", "a", "t", "i", "o", "n", "K", "e", "y", " ", "{", " ", "2", ";", " ", "1", ";", " ", "0", ";", "3", ";", "1", ".", "0", ";", "2", ".", "0", ";", "3", ".", "0", ";", ";", ";", " ", "}", " ", "}", " ", "}", "\n">>

BlockEnvSelf ==
  <<"S", "I", "_", "E", "n", "v", "e", "l", "o", "p", "e", "L", "i", "s", "t", " ", "{", " ", "1", ";", " ", "S", "I", "_", "E", "n", "v", "e", "l", "o", "p", "e", " ", "{", " ", "\"", "f", "r", "m", "-", "X", "\"", ";", " ", "\"", "f", "r", "m", "-", "X", "\"", ";", " ", "0", ";", " ", "}", " ", "}", "\n">>

BlockFrameX_ ==
  <<"S", "I", "_", "F", "r", "a", "m", "e", " ", "X", "_", " ", "{", " ", "}", "\n">>

BlockJunk ==
  <<"S", "I", "_", "A", "m", "b", "i", "e", "n", "c", "e", " ", "{", " ", "0", ".", "2", ";", " ", "}", "\n">>

BlockJunkAdj ==
  <<"S", "I", "_", "A", "m", "b", "i", "e", "n", "c", "e", " ", "{", " ", "x", " ", "{", "1", ";", "}", "}", "\n">>

BlockAnimAdj ==
  <<"A", "n", "i", "m", "a", "t", "i", "o", "n", "S", "e", "t", " ", "{", " ", "A", "n", "i", "m", "a", "t", "i", "o", "n", " ", "a", "n", "i", "m", "-", "X", " ", "{", " ", "{", "f", "r", "m", "-", "X", "}", " ", "S", "I", "_", "A", "n", "i", "m", "a", "t", "i", "o", "n", "K", "e", "y", " ", "{", " ", "2", ";", " ", "0", ";", " ", "}", "}", " ", "}", "\n">>

BlockEnvMutual ==
  <<"S", "I", "_", "E", "n", "v", "e", "l", "o", "p", "e", "L", "i", "s", "t", " ", "{", " ", "2", ";", " ", "S", "I", "_", "E", "n", "v", "e", "l", "o", "p", "e", " ", "{", " ", "\"", "f", "r", "m", "-", "X", "\"", ";", " ", "\"", "f", "r", "m", "-", "Y", "\"", ";", " ", "1", ";", " ", "0", ";", "1", ".", "0", ";", ";", " ", "}", " ", "S", "I", "_", "E", "n", "v", "e", "l", "o", "p", "e", " ", "{", " ", "\"", "f", "r", "m", "-", "Y", "\"", ";", " ", "\"", "f", "r", "m", "-", "X", "\"", ";", " ", "0", ";", " ", "}", " ", "}", "\n">>

BlockNoName ==
  <<"{", " ", "}", "\n">>

BlockBadMatrix ==
  <<"F", "r", "a", "m", "e", " ", "Z", " ", "{", " ", "F", "r", "a", "m", "e", "T", "r", "a", "n", "s", "f", "o", "r", "m", "M", "a", "t", "r", "i", "x", " ", "{", " ", "x", " ", "}", " ", "}", "\n">>

BlockFrameYUX ==
  <<"F", "r", "a", "m", "e", " ", "Y", " ", "{", " ", "F", "o", "o", "B", "a", "r", " ", "{", " ", "1", ";", " ", "}", " ", "F", "r", "a", "m", "e", " ", "X", " ", "{", " ", "}", " ", "}", "\n">>

BlockTruncated ==
  <<"F", "r", "a", "m", "e", " ", "Z", " ", "{", " ", "F", "r", "a", "m", "e", "T", "r", "a", "n", "s", "f", "o", "r", "m", "M", "a", "t", "r", "i", "x", " ", "{", " ", "1", ".", "0", ",", "0", ".", "0", "\n">>

BlockAnimBadKey ==
  <<"A", "n", "i", "m", "a", "t", "i", "o", "n", "S", "e", "t", " ", "{", " ", "A", "n", "i", "m", "a", "t", "i", "o", "n", " ", "a", "n", "i", "m", "-", "X", " ", "{", " ", "{", "f", "r", "m", "-", "X", "}", " ", "S", "I", "_", "A", "n", "i", "m", "a", "t", "i", "o", "n", "K", "e", "y", " ", "{", " ", "7", ";", " ", "0", ";", " ", "}", " ", "}", " ", "}", "\n">>

BlockAnimBadSize ==
  <<"A", "n", "i", "m", "a", "t", "i", "o", "n", "S", "e", "t", " ", "{", " ", "A", "n", "i", "m", "a", "t", "i", "o", "n", " ", "a", "n", "i", "m", "-", "X", " ", "{", " ", "{", "f", "r", "m", "-", "X", "}", " ", "S", "I", "_", "A", "n", "i", "m", "a", "t", "i", "o", "n", "K", "e", "y", " ", "{", " ", "2", ";", " ", "1", ";", " ", "0", ";", "4", ";", "1", ".", "0", ";", "2", ".", "0", ";", "3", ".", "0", ";", "4", ".", "0", ";", ";", ";", " ", "}", " ", "}", " ", "}", "\n">>

BlockMesh2_ ==
  <<"F", "r", "a", "m", "e", " ", "f", "r", "m", "-", "M", " ", "{", " ", "M", "e", "s", "h", " ", "M", " ", "{", " ", "1", ";", " ", "0", ".", "0", ";", "0", ".", "0", ";", "0", ".", "0", ";", ";", " ", "0", ";", " ", "M", "e", "s", "h", "M", "a", "t", "e", "r", "i", "a", "l", "L", "i", "s", "t", " ", "{", " ", "2", ";", " ", "0", ";", " ", "S", "I", "_", "M", "a", "t", "e", "r", "i", "a", "l", " ", "{", " ", "0", ".", "1", ";", "0", ".", "2", ";", "0", ".", "3", ";", "1", ".", "0", ";", ";", " ", "5", ".", "0", ";", " ", "0", ".", "0", ";", "0", ".", "0", ";", "0", ".", "0", ";", ";", " ", "0", ".", "0", ";", "0", ".", "0", ";", "0", ".", "0", ";", ";", " ", "2", ";", " ", "0", ".", "5", ";", "0", ".", "5", ";", "0", ".", "5", ";", ";", " ", "}", " ", "}", " ", "}", " ", "}", "\n">>

BlockMesh2_0 ==
  <<"F", "r", "a", "m", "e", " ", "f", "r", "m", "-", "M", " ", "{", " ", "M", "e", "s", "h", " ", "M", " ", "{", " ", "1", ";", " ", "0", ".", "0", ";", "0", ".", "0", ";", "0", ".", "0", ";", ";", " ", "1", ";", " ", "1", ";", "0", ";", " ", "M", "e", "s", "h", "M", "a", "t", "e", "r", "i", "a", "l", "L", "i", "s", "t", " ", "{", " ", "2", ";", " ", "1", ";", " ", "0", ";", " ", "S", "I", "_", "M", "a", "t", "e", "r", "i", "a", "l", " ", "{", " ", "0", ".", "1", ";", "0", ".", "2", ";", "0", ".", "3", ";", "1", ".", "0", ";", ";", " ", "5", ".", "0", ";", " ", "0", ".", "0", ";", "0", ".", "0", ";", "0", ".", "0", ";", ";", " ", "0", ".", "0", ";", "0", ".", "0", ";", "0", ".", "0", ";", ";", " ", "2", ";", " ", "0", ".", "5", ";", "0", ".", "5", ";", "0", ".", "5", ";", ";", " ", "}", " ", "}", " ", "}", " ", "}", "\n">>

BlockMesh2_1 ==
  <<"F", "r", "a", "m", "e", " ", "f", "r", "m", "-", "M", " ", "{", " ", "M", "e", "s", "h", " ", "M", " ", "{", " ", "1", ";", " ", "0", ".", "0", ";", "0", ".", "0", ";", "0", ".", "0", ";", ";", " ", "1", ";", " ", "1", ";", "0", ";", " ", "M", "e", "s", "h", "M", "a", "t", "e", "r", "i", "a", "l", "L", "i", "s", "t", " ", "{", " ", "2", ";", " ", "1", ";", " ", "1", ";", " ", "S", "I", "_", "M", "a", "t", "e", "r", "i", "a", "l", " ", "{", " ", "0", ".", "1", ";", "0", ".", "2", ";", "0", ".", "3", ";", "1", ".", "0", ";", ";", " ", "5", ".", "0", ";", " ", "0", ".", "0", ";", "0", ".", "0", ";", "0", ".", "0", ";", ";", " ", "0", ".", "0", ";", "0", ".", "0", ";", "0", ".", "0", ";", ";", " ", "2", ";", " ", "0", ".", "5", ";", "0", ".", "5", ";", "0", ".", "5", ";", ";", " ", "}", " ", "}", " ", "}", " ", "}", "\n">>

BlockMesh2_00 ==
  <<"F", "r", "a", "m", "e", " ", "f", "r", "m", "-", "M", " ", "{", " ", "M", "e", "s", "h", " ", "M", " ", "{", " ", "1", ";", " ", "0", ".", "0", ";", "0", ".", "0", ";", "0", ".", "0", ";", ";", " ", "2", ";", " ", "1", ";", "0", ";", " ", "1", ";", "0", ";", " ", "M", "e", "s", "h", "M", "a", "t", "e", "r", "i", "a", "l", "L", "i", "s", "t", " ", "{", " ", "2", ";", " ", "2", ";", " ", "0", ",", "0", ";", " ", "S", "I", "_", "M", "a", "t", "e", "r", "i", "a", "l", " ", "{", " ", "0", ".", "1", ";", "0", ".", "2", ";", "0", ".", "3", ";", "1", ".", "0", ";", ";", " ", "5", ".", "0", ";", " ", "0", ".", "0", ";", "0", ".", "0", ";", "0", ".", "0", ";", ";", " ", "0", ".", "0", ";", "0", ".", "0", ";", "0", ".", "0", ";", ";", " ", "2", ";", " ", "0", ".", "5", ";", "0", ".", "5", ";", "0", ".", "5", ";", ";", " ", "}", " ", "}", " ", "}", " ", "}", "\n">>

BlockMesh2_01 ==
  <<"F", "r", "a", "m", "e", " ", "f", "r", "m", "-", "M", " ", "{", " ", "M", "e", "s", "h", " ", "M", " ", "{", " ", "1", ";", " ", "0", ".", "0", ";", "0", ".", "0", ";", "0", ".", "0", ";", ";", " ", "2", ";", " ", "1", ";", "0", ";", " ", "1", ";", "0", ";", " ", "M", "e", "s", "h", "M", "a", "t", "e", "r", "i", "a", "l", "L", "i", "s", "t", " ", "{", " ", "2", ";", " ", "2", ";", " ", "0", ",", "1", ";", " ", "S", "I", "_", "M", "a", "t", "e", "r", "i", "a", "l", " ", "{", " ", "0", ".", "1", ";", "0", ".", "2", ";", "0", ".", "3", ";", "1", ".", "0", ";", ";", " ", "5", ".", "0", ";", " ", "0", ".", "0", ";", "0", ".", "0", ";", "0", ".", "0", ";", ";", " ", "0", ".", "0", ";", "0", ".", "0", ";", "0", ".", "0", ";", ";", " ", "2", ";", " ", "0", ".", "5", ";", "0", ".", "5", ";", "0", ".", "5", ";", ";", " ", "}", " ", "}", " ", "}", " ", "}", "\n">>

BlockMesh2_10 ==
  <<"F", "r", "a", "m", "e", " ", "f", "r", "m", "-", "M", " ", "{", " ", "M", "e", "s", "h", " ", "M", " ", "{", " ", "1", ";", " ", "0", ".", "0", ";", "0", ".", "0", ";", "0", ".", "0", ";", ";", " ", "2", ";", " ", "1", ";", "0", ";", " ", "1", ";", "0", ";", " ", "M", "e", "s", "h", "M", "a", "t", "e", "r", "i", "a", "l", "L", "i", "s", "t", " ", "{", " ", "2", ";", " ", "2", ";", " ", "1", ",", "0", ";", " ", "S", "I", "_", "M", "a", "t", "e", "r", "i", "a", "l", " ", "{", " ", "0", ".", "1", ";", "0", ".", "2", ";", "0", ".", "3", ";", "1", ".", "0", ";", ";", " ", "5", ".", "0", ";", " ", "0", ".", "0", ";", "0", ".", "0", ";", "0", ".", "0", ";", ";", " ", "0", ".", "0", ";", "0", ".", "0", ";", "0", ".", "0", ";", ";", " ", "2", ";", " ", "0", ".", "5", ";", "0", ".", "5", ";", "0", ".", "5", ";", ";", " ", "}", " ", "}", " ", "}", " ", "}", "\n">>

BlockMesh2_11 ==
  <<"F", "r", "a", "m", "e", " ", "f", "r", "m", "-", "M", " ", "{", " ", "M", "e", "s", "h", " ", "M", " ", "{", " ", "1", ";", " ", "0", ".", "0", ";", "0", ".", "0", ";", "0", ".", "0", ";", ";", " ", "2", ";", " ", "1", ";", "0", ";", " ", "1", ";", "0", ";", " ", "M", "e", "s", "h", "M", "a", "t", "e", "r", "i", "a", "l", "L", "i", "s", "t", " ", "{", " ", "2", ";", " ", "2", ";", " ", "1", ",", "1", ";", " ", "S", "I", "_", "M", "a", "t", "e", "r", "i", "a", "l", " ", "{", " ", "0", ".", "1", ";", "0", ".", "2", ";", "0", ".", "3", ";", "1", ".", "0", ";", ";", " ", "5", ".", "0", ";", " ", "0", ".", "0", ";", "0", ".", "0", ";", "0", ".", "0", ";", ";", " ", "0", ".", "0", ";", "0", ".", "0", ";", "0", ".", "0", ";", ";", " ", "2", ";", " ", "0", ".", "5", ";", "0", ".", "5", ";", "0", ".", "5", ";", ";", " ", "}", " ", "}", " ", "}", " ", "}", "\n">>

BlockMesh2_01D ==
  <<"F", "r", "a", "m", "e", " ", "f", "r", "m", "-", "M", " ", "{", " ", "M", "e", "s", "h", " ", "M", " ", "{", " ", "1", ";", " ", "0", ".", "0", ";", "0", ".", "0", ";", "0", ".", "0", ";", ";", " ", "2", ";", " ", "1", ";", "0", ";", " ", "1", ";", "0", ";", " ", "M", "e", "s", "h", "M", "a", "t", "e", "r", "i", "a", "l", "L", "i", "s", "t", " ", "{", " ", "2", ";", " ", "2", ";", " ", "0", ",", "1", ";", " ", "S", "I", "_", "M", "a", "t", "e", "r", "i", "a", "l", " ", "{", " ", "0", ".", "7", ";", "0", ".", "7", ";", "0", ".", "7", ";", "1", ".", "0", ";", ";", " ", "2", "0", "0", ".", "0", ";", " ", "0", ".", "3", "5", ";", "0", ".", "3", "5", ";", "0", ".", "3", "5", ";", ";", " ", "0", ".", "0", ";", "0", ".", "0", ";", "0", ".", "0", ";", ";", " ", "2", ";", " ", "0", ".", "5", ";", "0", ".", "5", ";", "0", ".", "5", ";", ";", " ", "}", " ", "}", " ", "}", " ", "}", "\n">>

BlockMesh2_01T ==
  <<"F", "r", "a", "m", "e", " ", "f", "r", "m", "-", "M", " ", "{", " ", "M", "e", "s", "h", " ", "M", " ", "{", " ", "1", ";", " ", "0", ".", "0", ";", "0", ".", "0", ";", "0", ".", "0", ";", ";", " ", "2", ";", " ", "1", ";", "0", ";", " ", "1", ";", "0", ";", " ", "M", "e", "s", "h", "M", "a", "t", "e", "r", "i", "a", "l", "L", "i", "s", "t", " ", "{", " ", "2", ";", " ", "2", ";", " ", "0", ",", "1", ";", " ", "S", "I", "_", "M", "a", "t", "e", "r", "i", "a", "l", " ", "{", " ", "0", ".", "1", ";", "0", ".", "2", ";", "0", ".", "3", ";", "1", ".", "0", ";", ";", " ", "5", ".", "0", ";", " ", "0", ".", "0", ";", "0", ".", "0", ";", "0", ".", "0", ";", ";", " ", "0", ".", "0", ";", "0", ".", "0", ";", "0", ".", "0", ";", ";", " ", "2", ";", " ", "0", ".", "5", ";", "0", ".", "5", ";", "0", ".", "5", ";", ";", " ", "}", " ", "S", "I", "_", "M", "a", "t", "e", "r", "i", "a", "l", " ", "{", " ", "0", ".", "1", ";", "0", ".", "2", ";", "0", ".", "3", ";", "1", ".", "0", ";", ";", " ", "5", ".", "0", ";", " ", "0", ".", "0", ";", "0", ".", "0", ";", "0", ".", "0", ";", ";", " ", "0", ".", "0", ";", "0", ".", "0", ";", "0", ".", "0", ";", ";", " ", "2", ";", " ", "0", ".", "5", ";", "0", ".", "5", ";", "0", ".", "5", ";", ";", " ", "S", "I", "_", "T", "e", "x", "t", "u", "r", "e", "2", "D", " ", "{", " ", "\"", "a", ".", "p", "n", "g", "\"", ";", " ", "}", " ", "}", " ", "}", " ", "}", " ", "}", "\n">>

BlockMesh1_02 ==
  <<"F", "r", "a", "m", "e", " ", "f", "r", "m", "-", "M", " ", "{", " ", "M", "e", "s", "h", " ", "M", " ", "{", " ", "1", ";", " ", "0", ".", "0", ";", "0", ".", "0", ";", "0", ".", "0", ";", ";", " ", "2", ";", " ", "1", ";", "0", ";", " ", "1", ";", "0", ";", " ", "M", "e", "s", "h", "M", "a", "t", "e", "r", "i", "a", "l", "L", "i", "s", "t", " ", "{", " ", "1", ";", " ", "2", ";", " ", "0", ",", "2", ";", " ", "S", "I", "_", "M", "a", "t", "e", "r", "i", "a", "l", " ", "{", " ", "0", ".", "1", ";", "0", ".", "2", ";", "0", ".", "3", ";", "1", ".", "0", ";", ";", " ", "5", ".", "0", ";", " ", "0", ".", "0", ";", "0", ".", "0", ";", "0", ".", "0", ";", ";", " ", "0", ".", "0", ";", "0", ".", "0", ";", "0", ".", "0", ";", ";", " ", "2", ";", " ", "0", ".", "5", ";", "0", ".", "5", ";", "0", ".", "5", ";", ";", " ", "}", " ", "}", " ", "}", " ", "}", "\n">>

BlockMesh2_0N ==
  <<"F", "r", "a", "m", "e", " ", "f", "r", "m", "-", "M", " ", "{", " ", "M", "e", "s", "h", " ", "M", " ", "{", " ", "1", ";", " ", "0", ".", "0", ";", "0", ".", "0", ";", "0", ".", "0", ";", ";", " ", "2", ";", " ", "1", ";", "0", ";", " ", "1", ";", "0", ";", " ", "S", "I", "_", "M", "e", "s", "h", "N", "o", "r", "m", "a", "l", "s", " ", "{", " ", "1", ";", " ", "0", ".", "0", ";", "0", ".", "0", ";", "1", ".", "0", ";", ";", " ", "1", ";", " ", "0", ";", "1", ";", "0", ";", ";", " ", "}", " ", "F", "o", "o", "B", "a", "r", " ", "{", " ", "1", ";", " ", "}", " ", "M", "e", "s", "h", "M", "a", "t", "e", "r", "i", "a", "l", "L", "i", "s", "t", " ", "{", " ", "2", ";", " ", "2", ";", " ", "0", ",", "-", "1", ";", " ", "S", "I", "_", "M", "a", "t", "e", "r", "i", "a", "l", " ", "{", " ", "0", ".", "1", ";", "0", ".", "2", ";", "0", ".", "3", ";", "1", ".", "0", ";", ";", " ", "5", ".", "0", ";", " ", "0", ".", "0", ";", "0", ".", "0", ";", "0", ".", "0", ";", ";", " ", "0", ".", "0", ";", "0", ".", "0", ";", "0", ".", "0", ";", ";", " ", "2", ";", " ", "0", ".", "5", ";", "0", ".", "5", ";", "0", ".", "5", ";", ";", " ", "}", " ", "}", " ", "}", " ", "}", "\n">>

BlockAnimBadGood ==
  <<"A", "n", "i", "m", "a", "t", "i", "o", "n", "S", "e", "t", " ", "{", " ", "A", "n", "i", "m", "a", "t", "i", "o", "n", " ", "a", "n", "i", "m", "-", "X", " ", "{", " ", "{", "f", "r", "m", "-", "X", "}", " ", "S", "I", "_", "A", "n", "i", "m", "a", "t", "i", "o", "n", "K", "e", "y", " ", "{", " ", "7", ";", " ", "0", ";", " ", "}", " ", "S", "I", "_", "A", "n", "i", "m", "a", "t", "i", "o", "n", "K", "e", "y", " ", "{", " ", "2", ";", " ", "1", ";", " ", "0", ";", "3", ";", "1", ".", "0", ";", "2", ".", "0", ";", "3", ".", "0", ";", ";", ";", " ", "}", " ", "}", " ", "}", "\n">>

BlockAnimBadAdj ==
  <<"A", "n", "i", "m", "a", "t", "i", "o", "n", "S", "e", "t", " ", "{", " ", "A", "n", "i", "m", "a", "t", "i", "o", "n", " ", "a", "n", "i", "m", "-", "X", " ", "{", " ", "{", "f", "r", "m", "-", "X", "}", " ", "S", "I", "_", "A", "n", "i", "m", "a", "t", "i", "o", "n", "K", "e", "y", " ", "{", " ", "7", ";", " ", "0", ";", " ", "}", "S", "I", "_", "A", "n", "i", "m", "a", "t", "i", "o", "n", "K", "e", "y", " ", "{", " ", "2", ";", " ", "1", ";", " ", "0", ";", "3", ";", "1", ".", "0", ";", "2", ".", "0", ";", "3", ".", "0", ";", ";", ";", " ", "}", " ", "}", " ", "}", "\n">>

BlockEnvNoFrame ==
  <<"S", "I", "_", "E", "n", "v", "e", "l", "o", "p", "e", "L", "i", "s", "t", " ", "{", " ", "2", ";", " ", "S", "I", "_", "E", "n", "v", "e", "l", "o", "p", "e", " ", "{", " ", "\"", "f", "r", "m", "-", "Q", "\"", ";", " ", "\"", "f", "r", "m", "-", "X", "\"", ";", " ", "0", ";", " ", "}", " ", "S", "I", "_", "E", "n", "v", "e", "l", "o", "p", "e", " ", "{", " ", "\"", "f", "r", "m", "-", "X", "\"", ";", " ", "\"", "f", "r", "m", "-", "Y", "\"", ";", " ", "0", ";", " ", "}", " ", "}", "\n">>

BlockEnvNoBone ==
  <<"S", "I", "_", "E", "n", "v", "e", "l", "o", "p", "e", "L", "i", "s", "t", " ", "{", " ", "2", ";", " ", "S", "I", "_", "E", "n", "v", "e", "l", "o", "p", "e", " ", "{", " ", "\"", "f", "r", "m", "-", "X", "\"", ";", " ", "\"", "f", "r", "m", "-", "Q", "\"", ";", " ", "1", ";", " ", "0", ";", "1", ".", "0", ";", ";", " ", "}", " ", "S", "I", "_", "E", "n", "v", "e", "l", "o", "p", "e", " ", "{", " ", "\"", "f", "r", "m", "-", "X", "\"", ";", " ", "\"", "f", "r", "m", "-", "Y", "\"", ";", " ", "0", ";", " ", "}", " ", "}", "\n">>

BlockEnvNoFrameAdj ==
  <<"S", "I", "_", "E", "n", "v", "e", "l", "o", "p", "e", "L", "i", "s", "t", " ", "{", " ", "2", ";", " ", "S", "I", "_", "E", "n", "v", "e", "l", "o", "p", "e", " ", "{", " ", "\"", "f", "r", "m", "-", "Q", "\"", ";", " ", "\"", "f", "r", "m", "-", "X", "\"", ";", " ", "0", ";", " ", "}", "S", "I", "_", "E", "n", "v", "e", "l", "o", "p", "e", " ", "{", " ", "\"", "f", "r", "m", "-", "X", "\"", ";", " ", "\"", "f", "r", "m", "-", "Y", "\"", ";", " ", "0", ";", " ", "}", " ", "}", "\n">>

BlockFrameYEnv ==
  <<"F", "r", "a", "m", "e", " ", "Y", " ", "{", " ", "S", "I", "_", "E", "n", "v", "e", "l", "o", "p", "e", "L", "i", "s", "t", " ", "{", " ", "0", ";", " ", "}", " ", "}", "\n">>

BlockFrameQuotedX ==
  <<"F", "r", "a", "m", "e", " ", "\"", "f", "r", "m", "-", "X", "\"", " ", "{", " ", "}", "\n">>

BlockFrameOpen ==
  <<"F", "r", "a", "m", "e", " ", "Z", " ", "{", " ", "F", "r", "a", "m", "e", " ", "W", " ", "{", " ", "\n">>

BlockFrameNoName ==
  <<"F", "r", "a", "m", "e", " ", "Z", " ", "{", " ", "{", " ", "}", " ", "F", "r", "a", "m", "e", " ", "W", " ", "{", " ", "}", " ", "}", "\n">>

\* Frames left open at the end of a file: in the middle of a word, and after
\* MAX_WORD - 1 and MAX_WORD blanks.
BlockFrameOpenWord ==
  <<"F", "r", "a", "m", "e", " ", "V", " ", "{", " ", "F", "r", "a">>

BlockFrameOpenBlank127 ==
  <<"F", "r", "a", "m", "e", " ", "U", " ", "{">> \o [i \in 1..(MAX_WORD - 1) |-> " "]

BlockFrameOpenBlank ==
  <<"F", "r", "a", "m", "e", " ", "U", " ", "{">> \o [i \in 1..MAX_WORD |-> " "]

General == <<BlockFrameX, BlockFrameXY, BlockUnknown, BlockUnknownAdj, BlockLight, BlockAnimX, BlockEnvSelf>>

Special ==
  <<BlockFrameX_, BlockJunk, BlockJunkAdj, BlockAnimAdj, BlockEnvMutual, BlockNoName,
    BlockBadMatrix, BlockFrameYUX, BlockTruncated, BlockAnimBadKey, BlockAnimBadSize,
    BlockAnimBadGood, BlockAnimBadAdj, BlockEnvNoFrame, BlockEnvNoBone, BlockEnvNoFrameAdj,
    BlockFrameYEnv, BlockFrameQuotedX, BlockFrameOpen, BlockFrameNoName>>

Meshes ==
  <<BlockMesh2_, BlockMesh2_0, BlockMesh2_1, BlockMesh2_00, BlockMesh2_01, BlockMesh2_10, BlockMesh2_11, BlockMesh2_01D, BlockMesh2_01T, BlockMesh1_02, BlockMesh2_0N>>

Unclosed == <<BlockFrameOpenWord, BlockFrameOpenBlank127, BlockFrameOpenBlank>>

Pool == General \o Special \o Meshes \o Unclosed

GeneralBlocks == 1..Len(General)
SpecialBlocks == (Len(General) + 1)..(Len(General) + Len(Special))
MeshBlocks ==
  (Len(General) + Len(Special) + 1)..(Len(General) + Len(Special) + Len(Meshes))
UnclosedBlocks == (Len(General) + Len(Special) + Len(Meshes) + 1)..Len(Pool)

SeqsUpTo(S, n) == UNION {[1..k -> S] : k \in 0..n}

FileOf(in) ==
  Headers[in.header] \o Concat([k \in 1..Len(in.blocks) |-> Pool[in.blocks[k]]])

BlockLists ==
  SeqsUpTo(GeneralBlocks, MaxBlocks)
    \cup {ix \in SeqsUpTo(GeneralBlocks \cup SpecialBlocks, MaxBlocks - 1) :
            Cardinality({k \in 1..Len(ix) : ix[k] \in SpecialBlocks}) = 1}
    \cup {<<k>> : k \in MeshBlocks}

Inputs ==
  {[header |-> 1, blocks |-> ix] : ix \in BlockLists}
    \cup {[header |-> h, blocks |-> ix] : h \in 2..Len(Headers), ix \in {<<>>, <<1>>}}

\* The skip sets of xsi_blender_importer.load_xsi with lights and animations
\* not imported, and with meshes not imported.
SkipLightsAnimations == {RE_JUNK, RE_LIGHT, RE_ANIMATION_SET}
SkipMeshes ==
  {RE_JUNK, RE_MESH, RE_MESH_MATERIALLIST, RE_MESH_NORMALS, RE_MESH_UVMAP,
   RE_MESH_VERTEX_COLORS, RE_ENVELOPE_LIST}

\* The flag settings and skip sets a Reader is run under.
Configs ==
  {[rename |-> r, noexcept |-> n, allow_print |-> TRUE, skip |-> DEFAULT_RE_SKIP] :
     r \in BOOLEAN, n \in BOOLEAN}
    \cup {[rename |-> TRUE, noexcept |-> FALSE, allow_print |-> TRUE, skip |-> s] :
            s \in {SkipLightsAnimations, SkipMeshes}}
    \cup {[rename |-> TRUE, noexcept |-> FALSE, allow_print |-> FALSE,
           skip |-> DEFAULT_RE_SKIP]}

Init ==
  /\ input \in Inputs
  /\ \E c \in Configs :
       /\ RENAME_DUPLICATE_NAMED_FRAMES = c.rename
       /\ DUPLICATE_FRAME_NOEXCEPT = c.noexcept
       /\ ALLOW_PRINT = c.allow_print
       /\ re_skip = c.skip
  /\ file = FileOf(input)
  /\ pos = 1
  /\ stack = <<>>
  /\ status = "start"
  /\ heap = <<>>
  /\ xsi = NewXSI
  /\ log = <<>>
  /\ call = NoCall
  /\ written = None

Next ==
  \/ read_header
  \/ read
  \/ read_frame
  \/ read_mesh
  \/ read_material_list
  \/ read_material
  \/ read_animation_set
  \/ read_animation
  \/ read_envelope_list

Spec == Init /\ [][Next]_vars

(***************************************************************************)
(* Reading the graph                                                       *)
(***************************************************************************)

\* the frames in post-order: a frame after its children
RECURSIVE get_all_frames_postorder(_, _)
get_all_frames_postorder(h, frames) ==
  IF frames = <<>> THEN <<>>
  ELSE get_all_frames_postorder(h, h[Head(frames)].frames) \o <<Head(frames)>>
         \o get_all_frames_postorder(h, Tail(frames))

\* _FrameContainer.get_all_frames on a frames list: depth-first pre-order.
RECURSIVE get_all_frames(_, _)
get_all_frames(h, frames) ==
  IF frames = <<>> THEN <<>>
  ELSE <<Head(frames)>> \o get_all_frames(h, h[Head(frames)].frames)
         \o get_all_frames(h, Tail(frames))

\* _FrameContainer.find_frame on the XSI: the first frame of that name in
\* get_all_frames, 0 for None
find_frame(h, x, name) ==
  The({IF hits = <<>> THEN 0 ELSE Head(hits)
       : hits \in {SelectSeq(get_all_frames(h, x.frames), LAMBDA f : h[f].name = name)}})

Range(seq) == {seq[k] : k \in 1..Len(seq)}

\* The frames reachable from xsi.frames.
Reachable == Range(get_all_frames(heap, xsi.frames))

\* Reader.read has returned.
Parsed == status = "done"

\* Reader.read has returned or raised.
Ended == status \notin {"api", "start", "running"}

Logged(msg) == \E k \in 1..Len(log) : log[k][1] = msg

NameX == <<"X">>
NameY == <<"Y">>

(***************************************************************************)
(* C1  Frame table                                                         *)
(***************************************************************************)

FrameTableHolds ==
  /\ \A i \in Reachable :
       /\ heap[i].name \in DOMAIN xsi.frame_table
       /\ xsi.frame_table[heap[i].name] = i
       /\ Cardinality({n \in DOMAIN xsi.frame_table : xsi.frame_table[n] = i}) = 1
  /\ \A i, j \in Reachable : i # j => heap[i].name # heap[j].name

C2_BoneMarking ==
  Parsed =>
    \A f \in Reachable : \A k \in 1..Len(heap[f].envelopes) :
      /\ heap[heap[f].envelopes[k].bone].is_bone
      /\ ~heap[f].is_bone

(***************************************************************************)
(* C3  Duplicate names                                                     *)
(***************************************************************************)

\* The cleaned frame names the general and special frame blocks declare, in
\* the order of their headers.
DeclaredBy ==
  [k \in GeneralBlocks \cup SpecialBlocks |->
     CASE Pool[k] = BlockFrameX -> <<NameX>>
       [] Pool[k] = BlockFrameXY -> <<NameX, NameY>>
       [] Pool[k] = BlockFrameX_ -> <<NameX \o <<"_">>>>
       [] OTHER -> <<>>]

OnlyFrames(in) ==
  /\ in.header = 1
  /\ \A k \in 1..Len(in.blocks) :
       in.blocks[k] \in GeneralBlocks \cup SpecialBlocks /\ DeclaredBy[in.blocks[k]] # <<>>

Declared(in) == Concat([k \in 1..Len(in.blocks) |-> DeclaredBy[in.blocks[k]]])

\* A name with one underscore appended per name already taken.
RECURSIVE FreeName(_, _)
FreeName(name, taken) ==
  IF name \in taken THEN FreeName(name \o <<"_">>, taken) ELSE name

\* The names a list of declared names is registered under, policy B.
RECURSIVE Registered(_, _)
Registered(names, done) ==
  IF names = <<>> THEN done
  ELSE Registered(Tail(names), Append(done, FreeName(Head(names), Range(done))))

HasDuplicate(names) == \E i, j \in 1..Len(names) : i < j /\ names[i] = names[j]

\* C3: a file of frames that declares a name twice: with renaming off and
\* DUPLICATE_FRAME_NOEXCEPT off the parse raises DuplicateFrame; with renaming
\* on it succeeds, the k-th frame created is registered under its declared
\* name with one underscore appended per name already taken (X, then X_), and
\* every frame is in the frame table under that name.
C3_DuplicateNames ==
  (Ended /\ OnlyFrames(input) /\ HasDuplicate(Declared(input))) =>
    IF RENAME_DUPLICATE_NAMED_FRAMES
      THEN /\ status = "done"
           /\ [k \in 1..Len(heap) |-> heap[k].name] = Registered(Declared(input), <<>>)
           /\ \A k \in 1..Len(heap) :
                heap[k].name \in DOMAIN xsi.frame_table
                  /\ xsi.frame_table[heap[k].name] = k
      ELSE ~DUPLICATE_FRAME_NOEXCEPT => status = "DuplicateFrame"

\* Policy B on X, X: the frames are X and X_.
C3_Witness ==
  /\ status = "done"
  /\ RENAME_DUPLICATE_NAMED_FRAMES
  /\ input.blocks = <<1, 1>>
  /\ [k \in 1..Len(heap) |-> heap[k].name] = <<NameX, NameX \o <<"_">>>>

(***************************************************************************)
(* C4  What parse raises                                                   *)
(***************************************************************************)

\* The header line of the file is the signature, but for letter case.
Signature(in) == FoldWord(Headers[in.header]) = Headers[1]

\* The file has the block b of the pool.
Uses(in, b) == \E k \in 1..Len(in.blocks) : Pool[in.blocks[k]] = b

FileWith(in, k, b) ==
  Headers[in.header]
    \o Concat([j \in 1..Len(in.blocks) |-> IF j = k THEN b ELSE Pool[in.blocks[j]]])

\* The parse of the file f under the flags and the skip set of the run.
ParseOf(f) ==
  Parse(NewReader(f, RENAME_DUPLICATE_NAMED_FRAMES, DUPLICATE_FRAME_NOEXCEPT,
                  ALLOW_PRINT, re_skip))

\* If the parse r completes, the run completes and has built r's graph.
SameGraph(r) == r.status = "done" => (status = "done" /\ heap = r.heap /\ xsi = r.xsi)

(***************************************************************************)
(* C6  Tolerant skip                                                       *)
(***************************************************************************)

\* "Frame Y { FooBar { 1; } Frame X { } }" without its FooBar block.
BlockFrameYX ==
  <<"F", "r", "a", "m", "e", " ", "Y", " ", "{", " ", " ", "F", "r", "a", "m", "e", " ", "X", " ", "{", " ", "}", " ", "}", "\n">>

\* The blocks with an unknown block: at top level, the whole block.
UnknownRemoved(b) ==
  CASE b = BlockUnknown -> <<>>
    [] b = BlockUnknownAdj -> <<>>
    [] b = BlockFrameYUX -> BlockFrameYX

\* C6: for a well-bracketed block of unknown type, between other blocks at
\* top level or inside a Frame, the parse completes, a diagnostic for the
\* unknown block is recorded, and the graph is the graph of the same file
\* with that block removed.
C6_TolerantSkip ==
  Ended =>
    \A k \in 1..Len(input.blocks) :
      Pool[input.blocks[k]] \in {BlockUnknown, BlockUnknownAdj, BlockFrameYUX} =>
        The({
          /\ SameGraph(r)
          /\ (r.status = "done" /\ ALLOW_PRINT) =>
               (Logged("Unknown Block In XSI") \/ Logged("Unknown Block In Frame"))
          : r \in {ParseOf(FileWith(input, k, UnknownRemoved(Pool[input.blocks[k]])))}})

(***************************************************************************)
(* C7  Skip set                                                            *)
(***************************************************************************)

\* "Frame frm-M { Mesh M { ... } }" without its Mesh block.
BlockFrameM ==
  <<"F", "r", "a", "m", "e", " ", "f", "r", "m", "-", "M", " ", "{", " ", " ", "}", "\n">>

\* The type name of the top-level block b matches a pattern of the skip set.
InSkipSet(b) ==
  The({h.kind = "block" /\ h.name # None /\ Skipped(Cur, h.name.w)
       : h \in {parse_block_headers(b, 1)}})

\* C7: a block whose type name matches a pattern of the active skip set, at
\* top level or nested (the Mesh of a Frame), is skipped: the graph is the
\* graph of the file without that block.
C7_SkipSet ==
  Ended =>
    \A k \in 1..Len(input.blocks) :
      /\ InSkipSet(Pool[input.blocks[k]]) => SameGraph(ParseOf(FileWith(input, k, <<>>)))
      /\ (input.blocks[k] \in MeshBlocks /\ RE_MESH \in re_skip) =>
           SameGraph(ParseOf(FileWith(input, k, BlockFrameM)))

(***************************************************************************)
(* C10  Animation targets                                                  *)
(***************************************************************************)

AnimationBlocks == {BlockAnimX, BlockAnimAdj, BlockAnimBadKey, BlockAnimBadSize}

\* The blocks that declare a frame named X.
DeclaresX == {BlockFrameX, BlockFrameXY, BlockFrameYUX}

\* C10: an Animation block whose target X is declared by no block before it
\* (later, or not at all) is logged and skipped, adds no animation key to
\* any frame, and the blocks after it are still parsed: the graph is the
\* graph of the file without the block.
C10_AnimationTarget ==
  Ended =>
    \A k \in 1..Len(input.blocks) :
      (/\ Pool[input.blocks[k]] \in AnimationBlocks
       /\ \A j \in 1..(k - 1) : Pool[input.blocks[j]] \notin DeclaresX) =>
        The({
          /\ SameGraph(r)
          /\ (r.status = "done" /\ ALLOW_PRINT /\ RE_ANIMATION_SET \notin re_skip) =>
               Logged("Invalid Frame Referenced By Animation")
          : r \in {ParseOf(FileWith(input, k, <<>>))}})

(***************************************************************************)
(* C8  Material padding                                                    *)
(***************************************************************************)

\* The mesh blocks whose MaterialList declares two materials and holds one
\* SI_Material block.
Padded ==
  {BlockMesh2_, BlockMesh2_0, BlockMesh2_1, BlockMesh2_00, BlockMesh2_01, BlockMesh2_10,
   BlockMesh2_11, BlockMesh2_01D, BlockMesh2_0N}

\* The face-to-material index list written in each of them.
IndicesOf(b) ==
  CASE b = BlockMesh2_ -> <<>>
    [] b = BlockMesh2_0 -> <<0>>
    [] b = BlockMesh2_1 -> <<1>>
    [] b = BlockMesh2_00 -> <<0, 0>>
    [] b = BlockMesh2_01 -> <<0, 1>>
    [] b = BlockMesh2_10 -> <<1, 0>>
    [] b = BlockMesh2_11 -> <<1, 1>>
    [] b = BlockMesh2_01D -> <<0, 1>>
    [] b = BlockMesh2_0N -> <<0, -1>>

\* The material written in their SI_Material block: in BlockMesh2_01D the
\* values of the default Material, in the others
\* "0.1;0.2;0.3;1.0;; 5.0; 0.0;0.0;0.0;; 0.0;0.0;0.0;; 2; 0.5;0.5;0.5;;".
MaterialOf(b) ==
  IF b = BlockMesh2_01D THEN DefaultMaterial
  ELSE [diffuse |-> <<100000, 200000, 300000, 1000000>>, hardness |-> 5000000,
        specular |-> <<0, 0, 0>>, emissive |-> <<0, 0, 0>>, shading_type |-> 2,
        ambient |-> <<500000, 500000, 500000>>, texture |-> None]

\* The file is a frame with one of these meshes, and the parse has read the
\* mesh and its material list.
PaddedRun ==
  /\ Parsed
  /\ Len(input.blocks) = 1
  /\ Pool[input.blocks[1]] \in Padded
  /\ RE_MESH \notin re_skip
  /\ RE_MESH_MATERIALLIST \notin re_skip

\* get_material_indices of the mesh lists two distinct materials, the second
\* the default Material.
TwoMaterials(materials) ==
  /\ Len(materials) = 2
  /\ materials[2] = DefaultMaterial
  /\ ~MaterialEq(materials[1], materials[2])

MaxOps == 4

NameA == <<"A">>
NameB == <<"B">>

ApiNames == {NameA, NameB, <<>>}

ApiKeyTypes == {0, 2, 4}

ApiKeyframes == {0, 5}

ApiVectors == {<<MICRO, 2 * MICRO, 3 * MICRO>>, <<MICRO, 0, 0, 0>>}

ApiWeights == {<<>>, <<<<0, MICRO>>>>}

\* Matrix(posit=(0.5, -2.0, 0.0, 1.0)): the other rows take their defaults
ApiMatrix ==
  Matrix(<<MICRO, 0, 0, 0>>, <<0, MICRO, 0, 0>>, <<0, 0, MICRO, 0>>,
         <<MICRO \div 2, -2 * MICRO, 0, MICRO>>)

ApiVertices == <<<<0, 0, 0>>, <<MICRO \div 2, -MICRO, 0>>>>

\* Mesh(): no vertices
MeshEmpty == NewMesh(None)

\* a Mesh given vertices only
MeshNoFaces == [NewMesh(None) EXCEPT !.vertices = ApiVertices]

\* a Mesh given vertices and one face
MeshOneFace == [MeshNoFaces EXCEPT !.faces = <<<<0, 1, 0>>>>]

\* a Mesh given vertices, one face and the face's material
MeshOneMaterial == [MeshOneFace EXCEPT !.face_materials = <<DefaultMaterial>>]

ApiMeshes == {MeshEmpty, MeshNoFaces, MeshOneFace, MeshOneMaterial}

RECURSIVE SumOf(_)
SumOf(ns) == IF ns = <<>> THEN 0 ELSE Head(ns) + SumOf(Tail(ns))

\* The number of objects of the graph.
GraphSize ==
  SumOf([f \in 1..Len(heap) |->
           1 + (IF heap[f].mesh = None THEN 0 ELSE 1)
             + (IF heap[f].transform = None THEN 0 ELSE 1)
             + (IF heap[f].pose = None THEN 0 ELSE 1)
             + Len(heap[f].animation_keys)
             + SumOf([k \in 1..Len(heap[f].animation_keys) |->
                        Len(heap[f].animation_keys[k].keys)])
             + Len(heap[f].envelopes)])

Building == status = "api" /\ GraphSize < MaxOps

Called(op, args, raised, h, x) ==
  /\ call' = [op |-> op, args |-> args, raised |-> raised]
  /\ heap' = h
  /\ xsi' = x
  /\ UNCHANGED <<flags, file, input, pos, stack, status, log, written>>

\* xsi.add_frame(name) or frame.add_frame(name)
api_add_frame ==
  /\ Building
  /\ \E container \in 0..Len(heap), name \in ApiNames :
       \E r \in {add_frame(Cur, container, name)} :
         Called("add_frame", <<container, name>>,
                IF r.status = "api" THEN "" ELSE r.status, r.heap, r.xsi)

\* frame.mesh = mesh
api_set_mesh ==
  /\ Building
  /\ \E frame \in 1..Len(heap), mesh \in ApiMeshes :
       /\ heap[frame].mesh = None
       /\ Called("mesh", <<frame>>, "", [heap EXCEPT ![frame].mesh = mesh], xsi)

\* frame.transform = matrix or frame.pose = matrix
api_set_matrix ==
  /\ Building
  /\ \E frame \in 1..Len(heap) :
       \/ /\ heap[frame].transform = None
          /\ Called("transform", <<frame>>, "",
                    [heap EXCEPT ![frame].transform = ApiMatrix], xsi)
       \/ /\ heap[frame].pose = None
          /\ Called("pose", <<frame>>, "",
                    [heap EXCEPT ![frame].pose = ApiMatrix], xsi)

\* frame.add_animationkey(key_type)
api_add_animationkey ==
  /\ Building
  /\ \E frame \in 1..Len(heap), key_type \in ApiKeyTypes :
       IF AnimationKeyRaises(key_type)
         THEN Called("add_animationkey", <<frame, key_type>>, "ValueError", heap, xsi)
         ELSE Called("add_animationkey", <<frame, key_type>>, "",
                     [heap EXCEPT ![frame].animation_keys =
                        Append(@, AnimationKey(key_type))], xsi)

\* anim_key.add_key(keyframe, vector), anim_key the k-th of the frame
api_add_key ==
  /\ Building
  /\ \E frame \in 1..Len(heap), keyframe \in ApiKeyframes, vector \in ApiVectors :
       \E k \in 1..Len(heap[frame].animation_keys) :
         \E r \in {add_key(heap[frame].animation_keys[k], keyframe, vector)} :
           Called("add_key", <<frame, k, keyframe, vector>>, r.err,
                  [heap EXCEPT ![frame].animation_keys[k] = r.key], xsi)

\* frame.add_envelope(bone, vertices)
api_add_envelope ==
  /\ Building
  /\ \E frame \in 1..Len(heap), bone \in 1..Len(heap), vertices \in ApiWeights :
       Called("add_envelope", <<frame, bone>>, "",
              [heap EXCEPT ![frame].envelopes = Append(@, Envelope(bone, vertices))],
              xsi)

InitApi ==
  /\ input = [header |-> 1, blocks |-> <<>>]
  /\ RENAME_DUPLICATE_NAMED_FRAMES = TRUE
  /\ DUPLICATE_FRAME_NOEXCEPT = FALSE
  /\ ALLOW_PRINT = TRUE
  /\ re_skip = DEFAULT_RE_SKIP
  /\ file = <<>>
  /\ pos = 1
  /\ stack = <<>>
  /\ status = "api"
  /\ heap = <<>>
  /\ xsi = NewXSI
  /\ log = <<>>
  /\ call = NoCall
  /\ written = None

NextApi ==
  \/ api_add_frame
  \/ api_set_mesh
  \/ api_set_matrix
  \/ api_add_animationkey
  \/ api_add_key
  \/ api_add_envelope

SpecApi == InitApi /\ [][NextApi]_vars

(***************************************************************************)
(* C9: add_key with a vector whose length differs from the key type's      *)
(* arity (4 for type 0, 3 for types 1, 2 and 3) raises ValueError and      *)
(* leaves the graph, the key list included, as it was; and every key       *)
(* stored in the graph has a vector of exactly its key type's arity.       *)
(***************************************************************************)

Arity(key_type) == IF key_type = 0 THEN 4 ELSE 3

StoredKeysFit ==
  \A f \in 1..Len(heap) : \A k \in 1..Len(heap[f].animation_keys) :
    \A j \in 1..Len(heap[f].animation_keys[k].keys) :
      Len(heap[f].animation_keys[k].keys[j][2]) = Arity(heap[f].animation_keys[k].key_type)

\* The step is an add_key call whose vector does not fit the key it is made on.
MisfitCall ==
  /\ call'.op = "add_key"
  /\ Len(call'.args[4]) #
       Arity(heap[call'.args[1]].animation_keys[call'.args[2]].key_type)

C9_AddKeyArity ==
  /\ []StoredKeysFit
  /\ [][MisfitCall => (call'.raised = "ValueError" /\ heap' = heap)]_vars

\* A four-component vector was refused by a translation key that holds a key.
C9_Witness ==
  /\ call.op = "add_key"
  /\ call.raised = "ValueError"
  /\ Len(call.args[4]) = 4
  /\ heap[call.args[1]].animation_keys[call.args[2]].key_type = 2
  /\ Len(heap[call.args[1]].animation_keys[call.args[2]].keys) = 1

(***************************************************************************)
(* The Writer.  Each method is the text it writes to the file, in the      *)
(* order of its calls of write; numbers are formatted as "%d" and "%f"     *)
(* format them, a float being a number of millionths.  The vectors of a    *)
(* list have as many components as the format string has conversions.      *)
(***************************************************************************)

DigitChars == <<"0", "1", "2", "3", "4", "5", "6", "7", "8", "9">>

RECURSIVE Decimal(_)
Decimal(n) ==
  IF n < 10 THEN <<DigitChars[n + 1]>>
  ELSE Decimal(n \div 10) \o <<DigitChars[(n % 10) + 1]>>

\* "%d" % n, and str(n) of an int
FormatD(n) == IF n < 0 THEN <<"-">> \o Decimal(-n) ELSE Decimal(n)

\* "%f" % x: the integer part, a point and six digits
FormatF(x) ==
  The({
    (IF x < 0 THEN <<"-">> ELSE <<>>) \o Decimal(a \div MICRO) \o <<".">>
      \o [i \in 1..6 |-> DigitChars[(((a % MICRO) \div (10 ^ (6 - i))) % 10) + 1]]
    : a \in {IF x < 0 THEN -x ELSE x}})

Conversion(data_type, value) ==
  IF data_type = "float" THEN FormatF(value) ELSE FormatD(value)

\* format_string % tuple(vector), the format string one conversion per
\* component, sep between two conversions and tail after the last
Format(types, vector, sep, tail) ==
  Concat([i \in 1..Len(types) |->
            Conversion(types[i], vector[i]) \o (IF i < Len(types) THEN sep ELSE tail)])

ALLOWED_NAME_CHARACTERS ==
  {"Q", "W", "E", "R", "T", "Y", "U", "I", "O", "P", "A", "S", "D", "F", "G", "H",
   "J", "K", "L", "Z", "X", "C", "V", "B", "N", "M", "q", "w", "e", "r", "t", "y",
   "u", "i", "o", "p", "a", "s", "d", "f", "g", "h", "j", "k", "l", "z", "x", "c",
   "v", "b", "n", "m", "1", "2", "3", "4", "5", "6", "7", "8", "9", "0", "_", "-"}

\* get_safe_name without the substitution of the characters outside the
\* allow-list
get_safe_name_unfiltered(name) ==
  IF name = <<>> THEN <<"u", "n", "n", "a", "m", "e", "d">> ELSE name

\* Writer.get_safe_name with the default sub
get_safe_name(name) ==
  The({
    [i \in 1..Len(n) |-> IF n[i] \in ALLOWED_NAME_CHARACTERS THEN n[i] ELSE "_"]
    : n \in {IF name = <<>> THEN <<"u", "n", "n", "a", "m", "e", "d">> ELSE name}})

\* Writer.write
write(t, data) == [i \in 1..t |-> "\t"] \o data \o <<"\n">>

\* Writer.write_vector_list: every format string it is given is one
\* conversion per component, each followed by a semicolon
write_vector_list(t, types, vectors) ==
  write(t, FormatD(Len(vectors)) \o <<";">>)
    \o (IF vectors = <<>> THEN <<>>
        ELSE Concat([i \in 1..Len(vectors) |->
               write(t, Format(types, vectors[i], <<";">>, <<";">>)
                          \o (IF i < Len(vectors) THEN <<",">> ELSE <<";">>))]))

\* make_face of Writer.write_face_list
make_face(face) ==
  FormatD(Len(face)) \o <<";">>
    \o Concat([i \in 1..Len(face) |->
                 FormatD(face[i]) \o (IF i < Len(face) THEN <<",">> ELSE <<>>)])
    \o <<";">>

\* Writer.write_face_list
write_face_list(t, faces, indexed) ==
  write(t, FormatD(Len(faces)) \o <<";">>)
    \o (IF faces = <<>> THEN <<>>
        ELSE Concat([i \in 1..Len(faces) |->
               write(t, (IF indexed THEN FormatD(i - 1) \o <<";">> ELSE <<>>)
                          \o make_face(faces[i])
                          \o (IF i < Len(faces) THEN <<",">> ELSE <<";">>))]))

\* Writer.write_face_vertices: the indices of the faces are within vertices
write_face_vertices(t, types, faces, vertices) ==
  write(t, FormatD(Len(vertices)) \o <<";">>)
    \o (IF vertices = <<>> THEN <<>>
        ELSE Concat([i \in 1..Len(faces) |->
               Concat([j \in 1..Len(faces[i]) |->
                 write(t, Format(types, vertices[faces[i][j] + 1], <<";">>, <<";">>)
                            \o (IF j < Len(faces[i]) THEN <<",">> ELSE <<";">>))])]))

\* Writer.write_animationkeys: vector_size is taken from the first key
write_animationkeys(t, keys) ==
  write(t, FormatD(Len(keys)) \o <<";">>)
    \o (IF keys = <<>> THEN <<>>
        ELSE Concat([i \in 1..Len(keys) |->
               write(t, FormatD(keys[i][1]) \o <<";">>
                          \o FormatD(Len(keys[1][2])) \o <<";">>
                          \o Format(Floats(Len(keys[1][2])), keys[i][2], <<";">>, <<>>)
                          \o <<";", ";">>
                          \o (IF i < Len(keys) THEN <<",">> ELSE <<";">>))]))

\* Writer.write_matrix
write_matrix(t, matrix, block_name) ==
  write(t, block_name \o <<" ", "{">>)
    \o write(t + 1, Format(Floats(4), matrix.right, <<",">>, <<",">>))
    \o write(t + 1, Format(Floats(4), matrix.up, <<",">>, <<",">>))
    \o write(t + 1, Format(Floats(4), matrix.front, <<",">>, <<",">>))
    \o write(t + 1, Format(Floats(4), matrix.posit, <<",">>, <<";", ";">>))
    \o write(t, <<"}">>)

\* Writer.write_material
write_material(t, material) ==
  write(t, <<"S", "I", "_", "M", "a", "t", "e", "r", "i", "a", "l", " ", "{">>)
    \o write(t + 1, Format(Floats(4), material.diffuse, <<";">>, <<";", ";">>))
    \o write(t + 1, FormatF(material.hardness) \o <<";">>)
    \o write(t + 1, Format(Floats(3), material.specular, <<";">>, <<";", ";">>))
    \o write(t + 1, Format(Floats(3), material.emissive, <<";">>, <<";", ";">>))
    \o write(t + 1, FormatD(material.shading_type) \o <<";">>)
    \o write(t + 1, Format(Floats(3), material.ambient, <<";">>, <<";", ";">>))
    \o (IF material.texture # None /\ material.texture.w # <<>>
          THEN write(t + 1, <<"S", "I", "_", "T", "e", "x", "t", "u", "r", "e", "2", "D", " ", "{">>)
                 \o write(t + 2, <<"\"">> \o material.texture.w \o <<"\"", ";">>)
                 \o write(t + 1, <<"}">>)
          ELSE <<>>)
    \o write(t, <<"}">>)

\* "if mesh.face_materials and mesh.faces:" of Writer.write_mesh
write_material_list(t, mesh) ==
  The({
    write(t, <<"M", "e", "s", "h", "M", "a", "t", "e", "r", "i", "a", "l", "L", "i", "s", "t", " ", "{">>)
      \o write(t + 1, FormatD(Len(im[2])) \o <<";">>)
      \o write(t + 1, FormatD(Len(im[1])) \o <<";">>)
      \o Concat([i \in 1..Len(im[1]) |->
                   write(t + 1, FormatD(im[1][i])
                                  \o (IF i < Len(im[1]) THEN <<",">> ELSE <<";">>))])
      \o Concat([i \in 1..Len(im[2]) |-> write_material(t + 1, im[2][i])])
      \o write(t, <<"}">>)
    : im \in {get_material_indices(mesh)}})

\* Writer.write_mesh
write_mesh(t, mesh, name) ==
  write(t, <<"M", "e", "s", "h", " ">> \o get_safe_name(name) \o <<" ", "{">>)
    \o (IF mesh.vertices = <<>> THEN <<>>
        ELSE write_vector_list(t + 1, Floats(3), mesh.vertices)
          \o (IF mesh.faces # <<>>
                THEN write_face_list(t + 1, mesh.faces, FALSE) ELSE <<>>)
          \o (IF mesh.face_materials # <<>> /\ mesh.faces # <<>>
                THEN write_material_list(t + 1, mesh) ELSE <<>>)
          \o (IF mesh.normal_vertices # <<>>
                THEN write(t + 1, <<"S", "I", "_", "M", "e", "s", "h", "N", "o", "r", "m", "a", "l", "s", " ", "{">>)
                       \o write_vector_list(t + 2, Floats(3), mesh.normal_vertices)
                       \o (IF mesh.normal_faces # <<>>
                             THEN write_face_list(t + 2, mesh.normal_faces, TRUE)
                             ELSE <<>>)
                       \o write(t + 1, <<"}">>)
                ELSE <<>>)
          \o (IF mesh.uv_vertices # <<>>
                THEN write(t + 1, <<"S", "I", "_", "M", "e", "s", "h", "T", "e", "x", "t", "u", "r", "e", "C", "o", "o", "r", "d", "s", " ", "{">>)
                       \o write_vector_list(t + 2, Floats(2), mesh.uv_vertices)
                       \o (IF mesh.uv_faces # <<>>
                             THEN write_face_list(t + 2, mesh.uv_faces, TRUE)
                             ELSE <<>>)
                       \o write(t + 1, <<"}">>)
                ELSE <<>>)
          \o (IF mesh.vertex_colors # <<>> /\ mesh.vertex_color_faces # <<>>
                THEN write(t + 1, <<"S", "I", "_", "M", "e", "s", "h", "V", "e", "r", "t", "e", "x", "C", "o", "l", "o", "r", "s", " ", "{">>)
                       \o write_face_vertices(t + 2, Floats(4), mesh.vertex_color_faces,
                                              mesh.vertex_colors)
                       \o write_face_list(t + 2, mesh.vertex_color_faces, TRUE)
                       \o write(t + 1, <<"}">>)
                ELSE <<>>))
    \o write(t, <<"}">>)

\* Writer.write_frame, and its loop over frame.frames
RECURSIVE write_frame(_, _, _)
RECURSIVE write_frames(_, _, _)
write_frame(h, t, frame) ==
  write(t, <<"F", "r", "a", "m", "e", " ", "f", "r", "m", "-">> \o get_safe_name(h[frame].name) \o <<" ", "{">>)
    \o (IF h[frame].transform # None
          THEN write_matrix(t + 1, h[frame].transform, <<"F", "r", "a", "m", "e", "T", "r", "a", "n", "s", "f", "o", "r", "m", "M", "a", "t", "r", "i", "x">>) ELSE <<>>)
    \o (IF h[frame].pose # None
          THEN write_matrix(t + 1, h[frame].pose, <<"S", "I", "_", "F", "r", "a", "m", "e", "B", "a", "s", "e", "P", "o", "s", "e", "M", "a", "t", "r", "i", "x">>) ELSE <<>>)
    \o (IF h[frame].mesh # None
          THEN write_mesh(t + 1, h[frame].mesh,
                          IF h[frame].mesh.name # None /\ h[frame].mesh.name.w # <<>>
                            THEN h[frame].mesh.name.w ELSE h[frame].name)
          ELSE <<>>)
    \o write_frames(h, t + 1, h[frame].frames)
    \o write(t, <<"}">>)

write_frames(h, t, frames) ==
  IF frames = <<>> THEN <<>>
  ELSE write_frame(h, t, Head(frames)) \o write_frames(h, t, Tail(frames))

\* Writer.write_animation
write_animation(h, t, frame) ==
  write(t, <<"A", "n", "i", "m", "a", "t", "i", "o", "n", " ", "a", "n", "i", "m", "-">> \o get_safe_name(h[frame].name) \o <<" ", "{">>)
    \o write(t + 1, <<"{", "f", "r", "m", "-">> \o get_safe_name(h[frame].name) \o <<"}">>)
    \o Concat([k \in 1..Len(h[frame].animation_keys) |->
         write(t + 1, <<"S", "I", "_", "A", "n", "i", "m", "a", "t", "i", "o", "n", "K", "e", "y", " ", "{">>)
           \o write(t + 2, FormatD(h[frame].animation_keys[k].key_type) \o <<";">>)
           \o write_animationkeys(t + 2, h[frame].animation_keys[k].keys)
           \o write(t + 1, <<"}">>)])
    \o write(t, <<"}">>)

\* Writer.write_envelope
write_envelope(h, t, frame, envelope) ==
  write(t, <<"S", "I", "_", "E", "n", "v", "e", "l", "o", "p", "e", " ", "{">>)
    \o write(t + 1, <<"\"", "f", "r", "m", "-">> \o get_safe_name(h[frame].name) \o <<"\"", ";">>)
    \o write(t + 1, <<"\"", "f", "r", "m", "-">> \o get_safe_name(h[envelope.bone].name) \o <<"\"", ";">>)
    \o write_vector_list(t + 1, <<"int", "float">>, envelope.vertices)
    \o write(t, <<"}">>)

\* get_animated_frames without its filter
get_animated_frames_unfiltered(h, x) == get_all_frames(h, x.frames)

\* _FrameContainer.get_animated_frames on the XSI
get_animated_frames(h, x) ==
  SelectSeq(get_all_frames(h, x.frames), LAMBDA f : h[f].animation_keys # <<>>)

\* _FrameContainer.get_skinned_frames on the XSI
get_skinned_frames(h, x) ==
  SelectSeq(get_all_frames(h, x.frames), LAMBDA f : h[f].envelopes # <<>>)

\* the number of skinned frames in place of the number of envelopes
get_skinned_count(h, x) == Len(get_skinned_frames(h, x))

\* _FrameContainer.get_envelope_count on the XSI
get_envelope_count(h, x) ==
  SumOf([i \in 1..Len(get_skinned_frames(h, x)) |->
           Len(h[get_skinned_frames(h, x)[i]].envelopes)])

\* Writer.write_xsi
write_xsi(h, x) ==
  write(0, <<"x", "s", "i", " ", "0", "1", "0", "1", "t", "x", "t", " ", "0", "0", "3", "2", "\n">>)
    \o write(0, <<"S", "I", "_", "C", "o", "o", "r", "d", "i", "n", "a", "t", "e", "S", "y", "s", "t", "e", "m", " ", "c", "o", "o", "r", "d", " ", "{">>)
    \o write(1, <<"1", ";">>) \o write(1, <<"0", ";">>) \o write(1, <<"1", ";">>)
    \o write(1, <<"0", ";">>) \o write(1, <<"2", ";">>) \o write(1, <<"5", ";">>)
    \o write(0, <<"}">>)
    \o Concat([i \in 1..Len(x.frames) |-> write(0, <<>>) \o write_frame(h, 0, x.frames[i])])
    \o The({
         IF animated_frames = <<>> THEN <<>>
         ELSE write(0, <<"\n", "A", "n", "i", "m", "a", "t", "i", "o", "n", "S", "e", "t", " ", "{">>)
                \o Concat([i \in 1..Len(animated_frames) |->
                             write_animation(h, 1, animated_frames[i])])
                \o write(0, <<"}">>)
         : animated_frames \in {get_animated_frames(h, x)}})
    \o The({
         IF skinned_frames = <<>> THEN <<>>
         ELSE write(0, <<"\n", "S", "I", "_", "E", "n", "v", "e", "l", "o", "p", "e", "L", "i", "s", "t", " ", "{">>)
                \o write(1, FormatD(get_envelope_count(h, x)) \o <<";">>)
                \o Concat([i \in 1..Len(skinned_frames) |->
                     Concat([k \in 1..Len(h[skinned_frames[i]].envelopes) |->
                       write_envelope(h, 1, skinned_frames[i],
                                      h[skinned_frames[i]].envelopes[k])])])
                \o write(0, <<"}">>)
         : skinned_frames \in {get_skinned_frames(h, x)}})

(***************************************************************************)
(* Writing the graph to a file and reading the file back: the client       *)
(* constructs a Writer on the graph it built, which writes the file, and   *)
(* then a Reader on that file.  written keeps the graph that was written.  *)
(***************************************************************************)

\* Writer.__init__ with a file, followed by Reader.__init__ on what it wrote
Writer ==
  /\ status = "api"
  /\ file' = write_xsi(heap, xsi)
  /\ written' = [none |-> FALSE, heap |-> heap, xsi |-> xsi]
  /\ call' = [op |-> "Writer", args |-> <<>>, raised |-> ""]
  /\ pos' = 1
  /\ stack' = <<>>
  /\ status' = "start"
  /\ heap' = <<>>
  /\ xsi' = NewXSI
  /\ UNCHANGED <<flags, log, input>>

NextRoundTrip ==
  \/ api_add_frame
  \/ api_set_mesh
  \/ api_set_matrix
  \/ api_add_animationkey
  \/ api_add_key
  \/ api_add_envelope
  \/ Writer
  \/ read_header
  \/ read
  \/ read_frame
  \/ read_mesh
  \/ read_material_list
  \/ read_material
  \/ read_animation_set
  \/ read_animation
  \/ read_envelope_list

SpecRoundTrip == InitApi /\ [][NextRoundTrip]_vars

(***************************************************************************)
(* C5: the Reader parses what the Writer wrote of a graph built through    *)
(* the classes' methods (its names within the Writer's allowed characters, *)
(* the empty name and meshes without vertices or faces included) without   *)
(* an error, into a graph with the same hierarchy, the same numbers of     *)
(* mesh vertices and faces, and the same animation key types, key counts   *)
(* and keyframes, frame by frame in depth-first pre-order.                 *)
(***************************************************************************)

\* The number of root frames and, in pre-order, of each frame's children.
Hierarchy(h, x) ==
  <<Len(x.frames),
    [i \in 1..Len(get_all_frames(h, x.frames)) |->
       Len(h[get_all_frames(h, x.frames)[i]].frames)]>>

\* In pre-order, each frame's mesh: <<>> for none, else its two counts.
MeshCounts(h, x) ==
  [i \in 1..Len(get_all_frames(h, x.frames)) |->
     IF h[get_all_frames(h, x.frames)[i]].mesh = None THEN <<>>
     ELSE <<Len(h[get_all_frames(h, x.frames)[i]].mesh.vertices),
            Len(h[get_all_frames(h, x.frames)[i]].mesh.faces)>>]

KeyframesOf(key) == [j \in 1..Len(key.keys) |-> key.keys[j][1]]

\* In pre-order, each frame's animation keys: type, count and keyframes.
AnimationKeys(h, x) ==
  [i \in 1..Len(get_all_frames(h, x.frames)) |->
     [k \in 1..Len(h[get_all_frames(h, x.frames)[i]].animation_keys) |->
        <<h[get_all_frames(h, x.frames)[i]].animation_keys[k].key_type,
          Len(h[get_all_frames(h, x.frames)[i]].animation_keys[k].keys),
          KeyframesOf(h[get_all_frames(h, x.frames)[i]].animation_keys[k])>>]]

AllowedNames(h) ==
  \A f \in 1..Len(h) : \A i \in 1..Len(h[f].name) :
    h[f].name[i] \in ALLOWED_NAME_CHARACTERS

C5_RoundTrip ==
  (Ended /\ written # None /\ AllowedNames(written.heap)) =>
    /\ status = "done"
    /\ Hierarchy(heap, xsi) = Hierarchy(written.heap, written.xsi)
    /\ MeshCounts(heap, xsi) = MeshCounts(written.heap, written.xsi)
    /\ AnimationKeys(heap, xsi) = AnimationKeys(written.heap, written.xsi)

(***************************************************************************)
(* C11  A bad AnimationKey block is dropped                                *)
(***************************************************************************)

\* The Animation blocks of the family with an AnimationKey block of type 7
\* or with a four-component vector in a key of type 2.
BadKeyBlocks == {BlockAnimBadKey, BlockAnimBadSize, BlockAnimBadGood, BlockAnimBadAdj}

\* "AnimationSet { Animation anim-X { {frm-X} } }"
BlockAnimNoKey ==
  <<"A", "n", "i", "m", "a", "t", "i", "o", "n", "S", "e", "t", " ", "{", " ", "A", "n", "i", "m", "a", "t", "i", "o", "n", " ", "a", "n", "i", "m", "-", "X", " ", "{", " ", "{", "f", "r", "m", "-", "X", "}", " ", "}", " ", "}", "\n">>

\* The block b without its bad AnimationKey block.
WithoutBadKey(b) ==
  IF b \in {BlockAnimBadGood, BlockAnimBadAdj} THEN BlockAnimX ELSE BlockAnimNoKey

\* C11: an AnimationKey block, of an Animation whose target X is declared
\* before it, with a key type outside 0..3 or with a vector of the wrong
\* arity is logged and dropped as a whole, the parse goes on,
\* and the other AnimationKey blocks and the rest of the file are parsed as
\* if the bad block were absent: the graph is the graph of the file without
\* the bad block.
C11_BadKeyDropped ==
  Ended =>
    \A k \in 1..Len(input.blocks) :
      (/\ Pool[input.blocks[k]] \in BadKeyBlocks
       /\ \E j \in 1..(k - 1) : Pool[input.blocks[j]] \in DeclaresX) =>
        The({
          /\ SameGraph(r)
          /\ (r.status = "done" /\ ALLOW_PRINT /\ RE_ANIMATION_SET \notin re_skip) =>
               Logged("ValueError")
          : r \in {ParseOf(FileWith(input, k, WithoutBadKey(Pool[input.blocks[k]])))}})

(***************************************************************************)
(* C12  An Envelope block that names a missing frame is skipped            *)
(***************************************************************************)

\* The EnvelopeList blocks of the family whose first Envelope block names
\* the frame Q, which no block declares, as its mesh frame or as its bone.
MissingFrameBlocks == {BlockEnvNoFrame, BlockEnvNoBone, BlockEnvNoFrameAdj}

\* The blocks above without their first Envelope block.
BlockEnvXY ==
  <<"S", "I", "_", "E", "n", "v", "e", "l", "o", "p", "e", "L", "i", "s", "t", " ", "{", " ", "2", ";", " ", "S", "I", "_", "E", "n", "v", "e", "l", "o", "p", "e", " ", "{", " ", "\"", "f", "r", "m", "-", "X", "\"", ";", " ", "\"", "f", "r", "m", "-", "Y", "\"", ";", " ", "0", ";", " ", "}", " ", "}", "\n">>

\* C12: after the frames X and Y are declared, an Envelope block whose mesh
\* frame or bone frame is not in the frame table is logged and skipped without an effect on the graph (no Envelope
\* on any frame, no is_bone changed, also when the bone exists), and the
\* Envelope blocks after it are parsed: the graph is the graph of the file
\* without the block.
C12_MissingFrame ==
  Ended =>
    \A k \in 1..Len(input.blocks) :
      (/\ Pool[input.blocks[k]] \in MissingFrameBlocks
       /\ \E j \in 1..(k - 1) : Pool[input.blocks[j]] = BlockFrameXY) =>
        The({
          /\ SameGraph(r)
          /\ (r.status = "done" /\ ALLOW_PRINT /\ RE_ENVELOPE_LIST \notin re_skip) =>
               (Logged("Invalid Frame Used By Envelope")
                  \/ Logged("Invalid Bone Used By Envelope"))
          : r \in {ParseOf(FileWith(input, k, BlockEnvXY))}})

(***************************************************************************)
(* C13  EnvelopeList blocks are position-independent                       *)
(***************************************************************************)

\* The blocks of the family that are or hold an EnvelopeList block.
EnvelopeListBlocks ==
  {BlockEnvSelf, BlockEnvMutual, BlockEnvNoFrame, BlockEnvNoBone, BlockFrameYEnv}

\* "Frame Y { }"
BlockFrameY ==
  <<"F", "r", "a", "m", "e", " ", "Y", " ", "{", " ", "}", "\n">>

\* The block b without its EnvelopeList block.
WithoutList(b) == IF b = BlockFrameYEnv THEN BlockFrameY ELSE <<>>

\* The frames without what Envelope blocks give them.
Skeleton(h) == [f \in 1..Len(h) |-> [h[f] EXCEPT !.envelopes = <<>>, !.is_bone = FALSE]]

\* C13: the blocks that follow an EnvelopeList block, at top level or nested
\* in a Frame, are processed as if the EnvelopeList were not before them:
\* but for envelopes and bone marks the graph is the graph of the file
\* without the EnvelopeList block (a Frame after it is in xsi.frames, the
\* siblings of the Frame that holds it stay its siblings).
C13_PositionIndependent ==
  Ended =>
    \A k \in 1..Len(input.blocks) :
      Pool[input.blocks[k]] \in EnvelopeListBlocks =>
        The({
          r.status = "done" =>
            (status = "done" /\ Skeleton(heap) = Skeleton(r.heap) /\ xsi = r.xsi)
          : r \in {ParseOf(FileWith(input, k, WithoutList(Pool[input.blocks[k]])))}})

(***************************************************************************)
(* A client that builds a graph and writes it.                             *)
(***************************************************************************)

NextWrite ==
  \/ api_add_frame
  \/ api_set_mesh
  \/ api_set_matrix
  \/ api_add_animationkey
  \/ api_add_key
  \/ api_add_envelope
  \/ Writer

SpecWrite == InitApi /\ [][NextWrite]_vars

\* The Writer has written the file.
Written == call.op = "Writer"

(***************************************************************************)
(* The written text by lines.  The Writer ends every line with a newline   *)
(* and indents it by tabs; a line that ends with an open brace is the      *)
(* header of a block.                                                      *)
(***************************************************************************)

\* The positions of f at which a line starts.
LineStarts(f) == {s \in 1..Len(f) : s = 1 \/ f[s - 1] = "\n"}

\* The position of the newline that ends the line starting at s.
LineEnd(f, s) ==
  CHOOSE j \in s..(Len(f) + 1) :
    /\ j = Len(f) + 1 \/ f[j] = "\n"
    /\ \A i \in s..(j - 1) : f[i] # "\n"

\* The line of f that starts at s, without its newline.
LineAt(f, s) == SubSeq(f, s, LineEnd(f, s) - 1)

\* The number of tabs a line starts with.
Indent(l) == Cardinality({i \in 1..Len(l) : \A j \in 1..i : l[j] = "\t"})

\* The position of the first space of l at or after from, Len(l) + 1 if none.
WordEnd(l, from) ==
  CHOOSE j \in from..(Len(l) + 1) :
    /\ j = Len(l) + 1 \/ l[j] = " "
    /\ \A i \in from..(j - 1) : l[i] # " "

\* The first and the second word of a line, after its tabs.
FirstWord(l) == SubSeq(l, Indent(l) + 1, WordEnd(l, Indent(l) + 1) - 1)

SecondWord(l) ==
  SubSeq(l, WordEnd(l, Indent(l) + 1) + 1,
         WordEnd(l, WordEnd(l, Indent(l) + 1) + 1) - 1)

RECURSIVE Ascending(_)
Ascending(S) ==
  IF S = {} THEN <<>>
  ELSE The({<<least>> \o Ascending(S \ {least})
            : least \in {CHOOSE x \in S : \A y \in S : x <= y}})

\* The block headers of f in the order of the text: indent, block type and
\* name (the second word, an open brace for a block without a name).
BlockHeaders(f) ==
  The({
    [i \in 1..Len(starts) |->
       [at |-> starts[i],
        indent |-> Indent(LineAt(f, starts[i])),
        type |-> FirstWord(LineAt(f, starts[i])),
        name |-> SecondWord(LineAt(f, starts[i]))]]
    : starts \in {Ascending({s \in LineStarts(f) :
                    LineAt(f, s) # <<>> /\ LineAt(f, s)[Len(LineAt(f, s))] = "{"})}})

\* The headers of the given block type.
HeadersOf(hs, type) == SelectSeq(hs, LAMBDA h : h.type = type)

WordFrame == <<"F", "r", "a", "m", "e">>
WordAnimation == <<"A", "n", "i", "m", "a", "t", "i", "o", "n">>
WordAnimationSet == <<"A", "n", "i", "m", "a", "t", "i", "o", "n", "S", "e", "t">>
WordCoordinateSystem == <<"S", "I", "_", "C", "o", "o", "r", "d", "i", "n", "a", "t", "e", "S", "y", "s", "t", "e", "m">>
WordEnvelopeList == <<"S", "I", "_", "E", "n", "v", "e", "l", "o", "p", "e", "L", "i", "s", "t">>
WordEnvelope == <<"S", "I", "_", "E", "n", "v", "e", "l", "o", "p", "e">>
HeaderLine == <<"x", "s", "i", " ", "0", "1", "0", "1", "t", "x", "t", " ", "0", "0", "3", "2", "\n">>

\* The number of ancestors of a frame.
RECURSIVE DepthOf(_, _)
DepthOf(h, frame) == IF h[frame].parent = 0 THEN 0 ELSE 1 + DepthOf(h, h[frame].parent)

(***************************************************************************)
(* C14  The order of the Writer's blocks                                   *)
(***************************************************************************)

\* The frames of the graph g in depth-first pre-order, those with an
\* animation key and those with an envelope.
FramesOf(g) == get_all_frames(g.heap, g.xsi.frames)

AnimatedOf(g) == SelectSeq(FramesOf(g), LAMBDA f : g.heap[f].animation_keys # <<>>)

SkinnedOf(g) == SelectSeq(FramesOf(g), LAMBDA f : g.heap[f].envelopes # <<>>)

\* The name of a frame in the text, for a name of allowed characters.
WrittenName(name) == IF name = <<>> THEN <<"u", "n", "n", "a", "m", "e", "d">> ELSE name

TypesOf(hs) == [i \in 1..Len(hs) |-> hs[i].type]

\* The block types at top level: the coordinate system, the root frames,
\* the AnimationSet (always, or only for a graph with an animated frame)
\* and the EnvelopeList for a graph with a skinned frame.
TopLevelTypes(g, always) ==
  <<WordCoordinateSystem>>
    \o [i \in 1..Len(g.xsi.frames) |-> WordFrame]
    \o (IF always \/ AnimatedOf(g) # <<>> THEN <<WordAnimationSet>> ELSE <<>>)
    \o (IF SkinnedOf(g) # <<>> THEN <<WordEnvelopeList>> ELSE <<>>)

\* The text starts with the header line.
StartsWithHeader(f) ==
  Len(f) >= Len(HeaderLine) /\ SubSeq(f, 1, Len(HeaderLine)) = HeaderLine

\* The Frame headers are the frames in pre-order, each indented by its depth.
FramesInOrder(hs, g) ==
  [i \in 1..Len(HeadersOf(hs, WordFrame)) |->
     <<HeadersOf(hs, WordFrame)[i].indent, HeadersOf(hs, WordFrame)[i].name>>]
    = [i \in 1..Len(FramesOf(g)) |->
         <<DepthOf(g.heap, FramesOf(g)[i]),
           <<"f", "r", "m", "-">> \o WrittenName(g.heap[FramesOf(g)[i]].name)>>]

\* The Animation headers are the animated frames in pre-order, each in the
\* AnimationSet block: indented once, after its header and after the frames.
AnimationsInOrder(hs, g) ==
  /\ [i \in 1..Len(HeadersOf(hs, WordAnimation)) |-> HeadersOf(hs, WordAnimation)[i].name]
       = [i \in 1..Len(AnimatedOf(g)) |->
            <<"a", "n", "i", "m", "-">> \o WrittenName(g.heap[AnimatedOf(g)[i]].name)]
  /\ \A i \in 1..Len(HeadersOf(hs, WordAnimation)) :
       /\ HeadersOf(hs, WordAnimation)[i].indent = 1
       /\ \E j \in 1..Len(hs) :
            /\ hs[j].type = WordAnimationSet
            /\ hs[j].at < HeadersOf(hs, WordAnimation)[i].at
       /\ \A j \in 1..Len(hs) :
            hs[j].type = WordFrame => hs[j].at < HeadersOf(hs, WordAnimation)[i].at
       /\ \A j \in 1..Len(hs) :
            hs[j].type = WordEnvelopeList => HeadersOf(hs, WordAnimation)[i].at < hs[j].at

WriteOrder(f, g, always) ==
  The({
    /\ StartsWithHeader(f)
    /\ TypesOf(SelectSeq(hs, LAMBDA h : h.indent = 0)) = TopLevelTypes(g, always)
    /\ FramesInOrder(hs, g)
    /\ AnimationsInOrder(hs, g)
    : hs \in {BlockHeaders(f)}})

\* C14 as stated: the Writer emits the header line, the coordinate-system
\* block, the root frames recursively with children in insertion order, a
\* single AnimationSet block and then the EnvelopeList block; the
\* AnimationSet holds one Animation block per frame with an animation key,
\* in depth-first pre-order.
C14_AsStated == Written => WriteOrder(file, written, TRUE)

\* C14: as above, the AnimationSet block being emitted only for a graph in
\* which some frame has an animation key.
C14_WriteOrder == Written => WriteOrder(file, written, FALSE)

\* A written graph of a frame and its child, the child alone animated, and
\* with an envelope.
C14_Witness ==
  /\ Written
  /\ Len(written.heap) = 2
  /\ written.heap[2].parent = 1
  /\ written.heap[1].animation_keys = <<>>
  /\ written.heap[2].animation_keys # <<>>
  /\ written.heap[1].envelopes # <<>>

(***************************************************************************)
(* C15  The EnvelopeList block and its count                               *)
(***************************************************************************)

\* The line of f after the line that starts at s, without its tabs.
LineAfter(f, s) ==
  The({SubSeq(l, Indent(l) + 1, Len(l)) : l \in {LineAt(f, LineEnd(f, s) + 1)}})

\* The line after the line after the line that starts at s.
SecondLineAfter(f, s) == LineAfter(f, LineEnd(f, s) + 1)

\* "frm-<name>" in double quotes, followed by a semicolon
Reference(name) == <<"\"">> \o <<"f", "r", "m", "-">> \o WrittenName(name) \o <<"\"", ";">>

\* The (frame, envelope) pairs of g: frames in pre-order, the envelopes of a
\* frame in their order; each as the two references its block starts with.
EnvelopePairs(g) ==
  Concat([i \in 1..Len(SkinnedOf(g)) |->
            [k \in 1..Len(g.heap[SkinnedOf(g)[i]].envelopes) |->
               <<Reference(g.heap[SkinnedOf(g)[i]].name),
                 Reference(g.heap[g.heap[SkinnedOf(g)[i]].envelopes[k].bone].name)>>]])

\* The count an EnvelopeList header is followed by: "<count>;"
DeclaredCount(f, h) ==
  The({IF l # <<>> /\ l[Len(l)] = ";" /\ IsDigitString(SubSeq(l, 1, Len(l) - 1))
         THEN NatOf(SubSeq(l, 1, Len(l) - 1), 0) ELSE -1
       : l \in {LineAfter(f, h.at)}})

EnvelopeListWritten(f, g, hs) ==
  /\ Len(HeadersOf(hs, WordEnvelopeList)) = (IF SkinnedOf(g) # <<>> THEN 1 ELSE 0)
  /\ \A i \in 1..Len(HeadersOf(hs, WordEnvelopeList)) :
       /\ HeadersOf(hs, WordEnvelopeList)[i].indent = 0
       /\ DeclaredCount(f, HeadersOf(hs, WordEnvelopeList)[i])
            = Len(HeadersOf(hs, WordEnvelope))
       /\ \A j \in 1..Len(HeadersOf(hs, WordEnvelope)) :
            /\ HeadersOf(hs, WordEnvelope)[j].indent = 1
            /\ HeadersOf(hs, WordEnvelopeList)[i].at < HeadersOf(hs, WordEnvelope)[j].at
  /\ [j \in 1..Len(HeadersOf(hs, WordEnvelope)) |->
        <<LineAfter(f, HeadersOf(hs, WordEnvelope)[j].at),
          SecondLineAfter(f, HeadersOf(hs, WordEnvelope)[j].at)>>]
       = EnvelopePairs(g)

\* C15: the Writer emits an EnvelopeList block exactly if some frame has an
\* envelope; the count it declares is the number of Envelope blocks that
\* follow, one per (frame, envelope) pair, frames in depth-first pre-order
\* and envelopes in their per-frame order.
C15_EnvelopeList ==
  Written => The({EnvelopeListWritten(file, written, hs) : hs \in {BlockHeaders(file)}})

\* A written graph of two frames, the first with two envelopes.
C15_Witness ==
  /\ Written
  /\ Len(written.heap) = 2
  /\ Len(written.heap[1].envelopes) = 2
  /\ written.heap[1].envelopes[1].bone # written.heap[1].envelopes[2].bone

(***************************************************************************)
(* C16  The names the Writer emits                                         *)
(***************************************************************************)

\* Names with characters outside the allow-list: a space, a non-ASCII
\* letter, punctuation, a brace; an empty name; a name of allowed characters.
WideNames ==
  {<<>>, <<"a", " ", "é", "{", ".", "-", "_", "1">>, <<"Z", "9">>}

NamedMeshes ==
  {NewMesh(None)} \cup {NewMesh([none |-> FALSE, w |-> n]) : n \in WideNames}

\* xsi.add_frame(name) or frame.add_frame(name), of any name
named_add_frame ==
  /\ Building
  /\ \E container \in 0..Len(heap), name \in WideNames :
       \E r \in {add_frame(Cur, container, name)} :
         Called("add_frame", <<container, name>>,
                IF r.status = "api" THEN "" ELSE r.status, r.heap, r.xsi)

\* frame.mesh = Mesh(name)
named_set_mesh ==
  /\ Building
  /\ \E frame \in 1..Len(heap), mesh \in NamedMeshes :
       /\ heap[frame].mesh = None
       /\ Called("mesh", <<frame>>, "", [heap EXCEPT ![frame].mesh = mesh], xsi)

NextNames ==
  \/ named_add_frame
  \/ named_set_mesh
  \/ api_add_animationkey
  \/ api_add_envelope
  \/ Writer

SpecNames == InitApi /\ [][NextNames]_vars

AsciiLetters ==
  {"a", "b", "c", "d", "e", "f", "g", "h", "i", "j", "k", "l", "m", "n", "o", "p",
   "q", "r", "s", "t", "u", "v", "w", "x", "y", "z", "A", "B", "C", "D", "E", "F",
   "G", "H", "I", "J", "K", "L", "M", "N", "O", "P", "Q", "R", "S", "T", "U", "V",
   "W", "X", "Y", "Z"}

SafeCharacters == AsciiLetters \cup Digits \cup {"_", "-"}

\* s is what the sanitization of name has to be.
SafeOf(name, s) ==
  /\ s # <<>>
  /\ \A i \in 1..Len(s) : s[i] \in SafeCharacters
  /\ name = <<>> => s = <<"u", "n", "n", "a", "m", "e", "d">>
  /\ name # <<>> =>
       /\ Len(s) = Len(name)
       /\ \A i \in 1..Len(name) :
            s[i] = (IF name[i] \in SafeCharacters THEN name[i] ELSE "_")

\* w is the prefix followed by the sanitization of name, itself a fixed
\* point of the sanitization.
PrefixedSafe(prefix, name, w) ==
  /\ Len(w) >= Len(prefix)
  /\ SubSeq(w, 1, Len(prefix)) = prefix
  /\ SafeOf(name, SubSeq(w, Len(prefix) + 1, Len(w)))
  /\ get_safe_name(SubSeq(w, Len(prefix) + 1, Len(w)))
       = SubSeq(w, Len(prefix) + 1, Len(w))

PrefixFrm == <<"f", "r", "m", "-">>
PrefixAnim == <<"a", "n", "i", "m", "-">>
WordMesh == <<"M", "e", "s", "h">>

MeshedOf(g) == SelectSeq(FramesOf(g), LAMBDA f : g.heap[f].mesh # None)

\* The name write_frame passes for the mesh of a frame.
MeshNameOf(g, f) ==
  IF g.heap[f].mesh.name # None /\ g.heap[f].mesh.name.w # <<>>
    THEN g.heap[f].mesh.name.w ELSE g.heap[f].name

\* A line without its first and its last n characters.
Inside(l, n) == SubSeq(l, n + 1, Len(l) - n)

\* The (frame, bone) names of the envelopes of g in the order of the text.
EnvelopeNames(g) ==
  Concat([i \in 1..Len(SkinnedOf(g)) |->
            [k \in 1..Len(g.heap[SkinnedOf(g)[i]].envelopes) |->
               <<g.heap[SkinnedOf(g)[i]].name,
                 g.heap[g.heap[SkinnedOf(g)[i]].envelopes[k].bone].name>>]])

\* The Frame headers, the Animation headers with their targets and the
\* Envelope references of f carry the names of g, prefixed and sanitized.
PrefixedNames(f, g, hs) ==
  /\ Len(HeadersOf(hs, WordFrame)) = Len(FramesOf(g))
  /\ \A i \in 1..Len(FramesOf(g)) :
       PrefixedSafe(PrefixFrm, g.heap[FramesOf(g)[i]].name,
                    HeadersOf(hs, WordFrame)[i].name)
  /\ Len(HeadersOf(hs, WordAnimation)) = Len(AnimatedOf(g))
  /\ \A i \in 1..Len(AnimatedOf(g)) :
       /\ PrefixedSafe(PrefixAnim, g.heap[AnimatedOf(g)[i]].name,
                       HeadersOf(hs, WordAnimation)[i].name)
       /\ \E l \in {LineAfter(f, HeadersOf(hs, WordAnimation)[i].at)} :
            /\ Len(l) >= 2 /\ l[1] = "{" /\ l[Len(l)] = "}"
            /\ PrefixedSafe(PrefixFrm, g.heap[AnimatedOf(g)[i]].name, Inside(l, 1))
  /\ Len(HeadersOf(hs, WordEnvelope)) = Len(EnvelopeNames(g))
  /\ \A j \in 1..Len(EnvelopeNames(g)) :
       \E a \in {LineAfter(f, HeadersOf(hs, WordEnvelope)[j].at)},
          b \in {SecondLineAfter(f, HeadersOf(hs, WordEnvelope)[j].at)} :
         /\ Len(a) >= 3 /\ a[1] = "\"" /\ SubSeq(a, Len(a) - 1, Len(a)) = <<"\"", ";">>
         /\ Len(b) >= 3 /\ b[1] = "\"" /\ SubSeq(b, Len(b) - 1, Len(b)) = <<"\"", ";">>
         /\ PrefixedSafe(PrefixFrm, EnvelopeNames(g)[j][1], SubSeq(a, 2, Len(a) - 2))
         /\ PrefixedSafe(PrefixFrm, EnvelopeNames(g)[j][2], SubSeq(b, 2, Len(b) - 2))

\* The Mesh headers of f carry the names of the meshes of g behind the
\* given prefix.
MeshNames(g, hs, prefix) ==
  /\ Len(HeadersOf(hs, WordMesh)) = Len(MeshedOf(g))
  /\ \A i \in 1..Len(MeshedOf(g)) :
       PrefixedSafe(prefix, MeshNameOf(g, MeshedOf(g)[i]),
                    HeadersOf(hs, WordMesh)[i].name)

\* The sanitization is as described on every name, and idempotent.
Sanitizes ==
  \A n \in WideNames :
    /\ SafeOf(n, get_safe_name(n))
    /\ get_safe_name(get_safe_name(n)) = get_safe_name(n)

\* C16 as stated: every name the Writer emits, the name of a Mesh included,
\* is a prefix of the format followed by the sanitized name.
C16_AsStated ==
  Written =>
    \E hs \in {BlockHeaders(file)} :
      /\ Sanitizes
      /\ PrefixedNames(file, written, hs)
      /\ \/ MeshNames(written, hs, PrefixFrm)
         \/ MeshNames(written, hs, PrefixAnim)

\* C16: get_safe_name gives "unnamed" for an empty name and otherwise the
\* name with an underscore in place of every character that is not an ASCII
\* letter, a digit, an underscore or a hyphen; it is idempotent; a Frame
\* header and an Envelope reference carry "frm-" and the sanitized name, an
\* Animation header "anim-" and the sanitized name with the target "frm-"
\* and the sanitized name, and a Mesh header the sanitized name of the mesh
\* (of its frame for a mesh without a name) with no prefix.
C16_SafeNames ==
  Written =>
    \E hs \in {BlockHeaders(file)} :
      /\ Sanitizes
      /\ PrefixedNames(file, written, hs)
      /\ MeshNames(written, hs, <<>>)

\* a frame with a name outside the allow-list, animated, skinned to a bone
\* without a name, with a mesh was written
C16_Witness ==
  /\ Written
  /\ \E f \in 1..Len(written.heap), b \in 1..Len(written.heap) :
       /\ \E i \in 1..Len(written.heap[f].name) :
            written.heap[f].name[i] \notin SafeCharacters
       /\ written.heap[b].name = <<>>
       /\ written.heap[f].envelopes # <<>>
       /\ written.heap[f].envelopes[1].bone = b
       /\ written.heap[f].mesh # None

(***************************************************************************)
(* C17  add_frame and the frame table                                      *)
(***************************************************************************)

\* The frames list of a container: of the XSI (0) or of a Frame.
FramesList(h, x, container) == IF container = 0 THEN x.frames ELSE h[container].frames

\* The step is a call of add_frame(name) on the container.
AddFrameCall(container, name) ==
  call'.op = "add_frame" /\ call'.args = <<container, name>>

\* The call raised DuplicateFrame; the table and every frames list are as before.
RaisedDuplicate ==
  /\ call'.raised = "DuplicateFrame"
  /\ xsi'.frame_table = xsi.frame_table
  /\ Len(heap') = Len(heap)
  /\ \A c \in 0..Len(heap) : FramesList(heap', xsi', c) = FramesList(heap, xsi, c)

\* The call appended one new Frame to the container's list and added the
\* one entry name -> that Frame to the table.
AddedOne(container, name) ==
  /\ call'.raised = ""
  /\ Len(heap') = Len(heap) + 1
  /\ heap'[Len(heap')].name = name
  /\ heap'[Len(heap')].frames = <<>>
  /\ heap'[Len(heap')].parent = container
  /\ FramesList(heap', xsi', container)
       = Append(FramesList(heap, xsi, container), Len(heap'))
  /\ \A c \in 0..Len(heap) :
       c # container => FramesList(heap', xsi', c) = FramesList(heap, xsi, c)
  /\ DOMAIN xsi'.frame_table = DOMAIN xsi.frame_table \cup {name}
  /\ xsi'.frame_table[name] = Len(heap')
  /\ \A n \in DOMAIN xsi.frame_table : xsi'.frame_table[n] = xsi.frame_table[n]

\* C17: with DUPLICATE_FRAME_NOEXCEPT false, add_frame(name) on the XSI or on
\* any Frame raises DuplicateFrame and leaves the frame table and every
\* frames list alone when name is a key of the frame table; otherwise it
\* appends one new Frame to the container's list and adds the one table
\* entry name -> that Frame.
C17_AddFrame ==
  [][\A container \in 0..Len(heap), name \in ApiNames :
       (~DUPLICATE_FRAME_NOEXCEPT /\ AddFrameCall(container, name)) =>
         IF name \in DOMAIN xsi.frame_table
           THEN RaisedDuplicate
           ELSE AddedOne(container, name)]_vars

\* add_frame on a root frame raised for a name that another root frame holds
C17_Witness ==
  /\ call.op = "add_frame"
  /\ call.raised = "DuplicateFrame"
  /\ call.args[1] # 0
  /\ heap[call.args[1]].parent = 0
  /\ heap[call.args[1]].frames # <<>>
  /\ call.args[2] \in DOMAIN xsi.frame_table
  /\ xsi.frame_table[call.args[2]] # call.args[1]
  /\ heap[xsi.frame_table[call.args[2]]].parent = 0

(***************************************************************************)
(* C18  ALLOW_PRINT                                                        *)
(***************************************************************************)

\* C18: when ALLOW_PRINT is false nothing is printed, whatever the file and
\* whatever the path the parse takes.
C18_Silent == ~ALLOW_PRINT => log = <<>>

(***************************************************************************)
(* C19  get_all_frames and find_frame                                      *)
(***************************************************************************)

\* The place of frame f in the list l, 0 when it is not there.
PlaceOf(l, f) ==
  IF \E i \in 1..Len(l) : l[i] = f THEN CHOOSE i \in 1..Len(l) : l[i] = f ELSE 0

\* Frame d is below frame f: f is its parent, or the parent of its parent, ...
RECURSIVE IsBelow(_, _, _)
IsBelow(h, d, f) ==
  h[d].parent # 0 /\ (h[d].parent = f \/ IsBelow(h, h[d].parent, f))

\* l lists every frame of the heap once, a frame before the frames below it
\* and with nothing between it and them, the frames of one list in its order.
IsPreOrder(h, x, l) ==
  /\ Len(l) = Len(h)
  /\ \A f \in 1..Len(h) : PlaceOf(l, f) # 0
  /\ \A f \in 1..Len(h) : h[f].parent # 0 => PlaceOf(l, h[f].parent) < PlaceOf(l, f)
  /\ \A c \in 0..Len(h) :
       \A i, j \in 1..Len(FramesList(h, x, c)) :
         i < j => PlaceOf(l, FramesList(h, x, c)[i]) < PlaceOf(l, FramesList(h, x, c)[j])
  /\ \A f, g, d \in 1..Len(h) :
       (IsBelow(h, d, f) /\ ~IsBelow(h, g, f) /\ PlaceOf(l, f) < PlaceOf(l, g))
         => PlaceOf(l, d) < PlaceOf(l, g)

\* A name no frame is given.
NameC == <<"C">>

\* C19: after any sequence of add_frame calls with DUPLICATE_FRAME_NOEXCEPT
\* false, get_all_frames of the XSI lists every frame once in depth-first
\* pre-order, and find_frame(name) of the XSI is frame_table[name] for a key
\* of the frame table and None for any other name.
C19_Frames ==
  (status = "api" /\ ~DUPLICATE_FRAME_NOEXCEPT) =>
    /\ IsPreOrder(heap, xsi, get_all_frames(heap, xsi.frames))
    /\ \A name \in ApiNames \cup {NameC} :
         find_frame(heap, xsi, name)
           = (IF name \in DOMAIN xsi.frame_table THEN xsi.frame_table[name] ELSE 0)

\* three frames, the third added to the first after the second was added to
\* the XSI: the list is neither in the order of the calls nor by levels
C19_Witness ==
  /\ status = "api"
  /\ call.op = "add_frame"
  /\ Len(heap) = 3
  /\ heap[2].parent = 0
  /\ heap[3].parent = 1
  /\ get_all_frames(heap, xsi.frames) = <<1, 3, 2>>
  /\ find_frame(heap, xsi, heap[3].name) = 3
  /\ find_frame(heap, xsi, NameC) = 0

(***************************************************************************)
(* C20  The length of a word                                               *)
(***************************************************************************)

\* The characters the word reader takes for delimiters, and the carriage
\* return it drops.
PadCharacters == WordDelimiters \cup NON_CHARACTERS

PadLengths == {0, 1, MAX_WORD - 2, MAX_WORD - 1, MAX_WORD, MAX_WORD + 1}

WordLengths == {1, 2, MAX_WORD - 2, MAX_WORD - 1, MAX_WORD, MAX_WORD + 1}

\* A word of n letters.
LetterWord(n) == [i \in 1..n |-> "a"]

\* A run of pad characters, a word (in double quotes or bare), a space and
\* an open brace.
ScanFile(in) ==
  [i \in 1..in.run |-> in.pad]
    \o (IF in.quoted THEN <<"\"">> \o LetterWord(in.word) \o <<"\"">>
        ELSE LetterWord(in.word))
    \o <<" ", "{">>

ScanInputs ==
  [pad : PadCharacters, run : PadLengths, word : WordLengths, quoted : BOOLEAN]

InitScan ==
  /\ input \in ScanInputs
  /\ file = ScanFile(input)
  /\ RENAME_DUPLICATE_NAMED_FRAMES = TRUE
  /\ DUPLICATE_FRAME_NOEXCEPT = FALSE
  /\ ALLOW_PRINT = TRUE
  /\ re_skip = DEFAULT_RE_SKIP
  /\ pos = 1
  /\ stack = <<>>
  /\ status = "scan"
  /\ heap = <<>>
  /\ xsi = NewXSI
  /\ log = <<>>
  /\ call = NoCall
  /\ written = None

\* The scanner has returned r.
Scanned(op, r, result) ==
  /\ call' = [op |-> op, args |-> <<>>,
              raised |-> IF r.kind = "toolong" THEN "XSIParseError" ELSE "",
              result |-> result]
  /\ pos' = r.pos
  /\ status' = "scanned"
  /\ UNCHANGED <<flags, file, input, stack, heap, xsi, log, written>>

\* reader.parse_word() at the start of the file
call_parse_word ==
  /\ status = "scan"
  /\ \E r \in {parse_word(file, pos)} :
       Scanned("parse_word", r,
               IF r.kind = "word" THEN [none |-> FALSE, w |-> r.word] ELSE None)

\* next(reader.parse_block_headers()) at the start of the file
call_parse_block_headers ==
  /\ status = "scan"
  /\ \E r \in {parse_block_headers(file, pos)} :
       Scanned("parse_block_headers", r, IF r.kind = "block" THEN r.name ELSE None)

NextScan ==
  \/ call_parse_word
  \/ call_parse_block_headers

SpecScan == InitScan /\ [][NextScan]_vars

\* The word of the input as the scanner has to give it: the header scanner
\* keeps the quotes.
ScannedWord ==
  IF input.quoted /\ call.op = "parse_block_headers"
    THEN <<"\"">> \o LetterWord(input.word) \o <<"\"">>
    ELSE LetterWord(input.word)

\* C20: parse_word raises the length-exceeded error if and only if the word
\* is longer than MAX_WORD characters, whatever run of delimiters, carriage
\* returns or quotes precedes or encloses it, and returns a word of at most
\* MAX_WORD characters; the block header scanner raises the error only for
\* a header word longer than MAX_WORD.
C20_WordLength ==
  status = "scanned" =>
    /\ call.op = "parse_word" =>
         /\ call.raised = "XSIParseError" <=> input.word > MAX_WORD
         /\ input.word <= MAX_WORD => call.result = [none |-> FALSE, w |-> ScannedWord]
    /\ call.op = "parse_block_headers" =>
         (call.raised = "XSIParseError" => Len(ScannedWord) > MAX_WORD)

(***************************************************************************)
(* C21  A word in quotes                                                   *)
(***************************************************************************)

MaxQuoted == 3

\* The characters of a quoted span: a letter, the delimiters of a bare word,
\* the braces, the carriage return and the two quote characters.
QuotedCharacters == {"a", " ", "\t", ",", ";", "{", "}", "\n", "\r", "'", "\""}

\* A quote character, and a content without that character.
QuoteInputs ==
  {in \in [quote : Quotes, content : SeqsUpTo(QuotedCharacters, MaxQuoted)] :
     \A i \in 1..Len(in.content) : in.content[i] # in.quote}

\* The content in its quotes, then a bare word.
QuoteFile(in) == <<in.quote>> \o in.content \o <<in.quote, " ", "x", " ">>

InitQuote ==
  /\ input \in QuoteInputs
  /\ file = QuoteFile(input)
  /\ RENAME_DUPLICATE_NAMED_FRAMES = TRUE
  /\ DUPLICATE_FRAME_NOEXCEPT = FALSE
  /\ ALLOW_PRINT = TRUE
  /\ re_skip = DEFAULT_RE_SKIP
  /\ pos = 1
  /\ stack = <<>>
  /\ status = "scan"
  /\ heap = <<>>
  /\ xsi = NewXSI
  /\ log = <<>>
  /\ call = NoCall
  /\ written = None

NextQuote == call_parse_word

SpecQuote == InitQuote /\ [][NextQuote]_vars

\* The content without the carriage returns, which the Reader drops everywhere.
WithoutCR(w) == SelectSeq(w, LAMBDA c : c \notin NON_CHARACTERS)

\* C21: parse_word on a quoted span returns everything up to the matching
\* quote as the word: blanks, commas, semicolons and braces do not end it,
\* and a newline inside the quotes is kept in the word.
C21_QuotedLiteral ==
  status = "scanned" =>
    /\ call.raised = ""
    /\ call.result = [none |-> FALSE, w |-> WithoutCR(input.content)]
    /\ pos = Len(input.content) + 3

(***************************************************************************)
(* C22  A frame declared with a quoted name                                *)
(***************************************************************************)

\* The file has block b at place k.
BlockAt(in, k, b) == k <= Len(in.blocks) /\ Pool[in.blocks[k]] = b

\* C22: a frame declared as Frame "frm-X" { } is in the frame table under
\* X, and an Animation or an Envelope after it that names X resolves to it.
C22_QuotedFrameName ==
  (status = "done" /\ BlockAt(input, 1, BlockFrameQuotedX)) =>
    /\ NameX \in DOMAIN xsi.frame_table
    /\ (BlockAt(input, 2, BlockAnimX) /\ RE_ANIMATION_SET \notin re_skip) =>
         heap[xsi.frame_table[NameX]].animation_keys # <<>>
    /\ (BlockAt(input, 2, BlockEnvSelf) /\ RE_ENVELOPE_LIST \notin re_skip) =>
         heap[xsi.frame_table[NameX]].envelopes # <<>>

(***************************************************************************)
(* C23  A block without a type name                                        *)
(***************************************************************************)

NameW == <<"W">>

\* C23: an open brace with no word before it, at top level or in a frame,
\* is logged and skipped like any unknown block: the parse does not fail on
\* it, and the frame declared after it is parsed.
C23_NoTypeName ==
  (Ended /\ (Uses(input, BlockNoName) \/ Uses(input, BlockFrameNoName))) =>
    /\ status # "TypeError"
    /\ (status = "done" /\ Uses(input, BlockFrameNoName)) =>
         NameW \in DOMAIN xsi.frame_table

(***************************************************************************)
(* C24  skip_block                                                         *)
(***************************************************************************)

MaxSkip == 6

SkipCharacters == {"a", " ", "{", "}"}

\* The open braces less the close braces among the first n characters of w.
BraceDepth(w, n) ==
  Cardinality({i \in 1..n : w[i] = "{"}) - Cardinality({i \in 1..n : w[i] = "}"})

\* Every close brace of w closes an open brace of w, and none is left open.
Balanced(w) ==
  /\ \A n \in 1..Len(w) : BraceDepth(w, n) >= 0
  /\ BraceDepth(w, Len(w)) = 0

\* The content of a block, brace-balanced, with or without the close brace
\* of the block after it.
SkipInputs ==
  [content : {w \in SeqsUpTo(SkipCharacters, MaxSkip) : Balanced(w)}, closed : BOOLEAN]

\* The text after the open brace of the block: the content, and for a
\* closed block its close brace and what follows the block.
SkipFile(in) ==
  in.content \o (IF in.closed THEN <<"}", " ", "b", " ", "}", " ">> ELSE <<>>)

InitSkip ==
  /\ input \in SkipInputs
  /\ file = SkipFile(input)
  /\ RENAME_DUPLICATE_NAMED_FRAMES = TRUE
  /\ DUPLICATE_FRAME_NOEXCEPT = FALSE
  /\ ALLOW_PRINT = TRUE
  /\ re_skip = DEFAULT_RE_SKIP
  /\ pos = 1
  /\ stack = <<>>
  /\ status = "scan"
  /\ heap = <<>>
  /\ xsi = NewXSI
  /\ log = <<>>
  /\ call = NoCall
  /\ written = None

\* reader.skip_block() just after the open brace of the block
call_skip_block ==
  /\ status = "scan"
  /\ \E r \in {skip_block(file, pos)} :
       Scanned("skip_block", r, r.kind)

NextSkip == call_skip_block

SpecSkip == InitSkip /\ [][NextSkip]_vars

\* C24: skip_block consumes the content of the block up to and with the
\* close brace that ends the block and nothing after it, whatever the
\* brace-balanced content, braces next to each other or next to a word
\* included; when the input ends first it returns the end-of-file sentinel.
\* (The blank that ends the word of the close brace is read with it.)
C24_SkipBlock ==
  status = "scanned" =>
    IF input.closed
      THEN /\ call.result = "end" /\ call.raised = ""
           /\ pos \in {Len(input.content) + 2, Len(input.content) + 3}
      ELSE call.result = "eof" /\ call.raised = ""

(***************************************************************************)
(* C25  The face-to-material indices                                       *)
(***************************************************************************)

\* The meshes whose material list is checked: the padded ones, and the one
\* with a single material and the index 2.
IndexedMeshes == Padded \cup {BlockMesh1_02}

ListIndices(b) == IF b = BlockMesh1_02 THEN <<0, 2>> ELSE IndicesOf(b)

\* The materials of the list after padding.
ListMaterials(b) ==
  IF b = BlockMesh1_02 THEN <<MaterialOf(b)>> ELSE <<MaterialOf(b), DefaultMaterial>>

\* The file is a frame with one of these meshes, and the parse has ended
\* with the mesh and its material list not skipped.
IndexedRun ==
  /\ Ended
  /\ Len(input.blocks) = 1
  /\ Pool[input.blocks[1]] \in IndexedMeshes
  /\ RE_MESH \notin re_skip
  /\ RE_MESH_MATERIALLIST \notin re_skip

\* C25: with n materials in the list after padding, a face whose index i is
\* in 0..n-1 gets the i-th material; an index outside 0..n-1, negative or
\* not, makes the parse fail with IndexError and no material is assigned
\* for it.
C25_IndexRange ==
  IndexedRun =>
    The({
      IF \A j \in 1..Len(indices) : indices[j] \in 0..(Len(materials) - 1)
        THEN /\ status = "done"
             /\ heap[1].mesh.face_materials
                  = [j \in 1..Len(indices) |-> materials[indices[j] + 1]]
        ELSE status = "IndexError"
      : indices \in {ListIndices(Pool[input.blocks[1]])},
        materials \in {ListMaterials(Pool[input.blocks[1]])}})

(***************************************************************************)
(* C26  Mesh.get_material_indices                                          *)
(***************************************************************************)

MaxFaces == 4

\* Four materials: the default, one with other colours, that one with a
\* texture, and the default with another hardness.
FaceMaterials ==
  {DefaultMaterial,
   MaterialOf(BlockMesh2_0),
   [MaterialOf(BlockMesh2_0) EXCEPT !.texture = [none |-> FALSE, w |-> <<"a">>]],
   [DefaultMaterial EXCEPT !.hardness = 5000000]}

\* A frame with a mesh that has a material per face.
InitMaterials ==
  /\ input \in [face_materials : SeqsUpTo(FaceMaterials, MaxFaces)]
  /\ heap = <<[NewFrame(NameX) EXCEPT
                 !.xsi = 0,
                 !.mesh = [NewMesh(None) EXCEPT !.face_materials = input.face_materials]]>>
  /\ xsi = [NewXSI EXCEPT !.frames = <<1>>, !.frame_table = (NameX :> 1)]
  /\ RENAME_DUPLICATE_NAMED_FRAMES = TRUE
  /\ DUPLICATE_FRAME_NOEXCEPT = FALSE
  /\ ALLOW_PRINT = TRUE
  /\ re_skip = DEFAULT_RE_SKIP
  /\ file = <<>>
  /\ pos = 1
  /\ stack = <<>>
  /\ status = "api"
  /\ log = <<>>
  /\ call = NoCall
  /\ written = None

\* mesh.get_material_indices()
call_get_material_indices ==
  /\ status = "api"
  /\ call = NoCall
  /\ call' = [op |-> "get_material_indices", args |-> <<1>>, raised |-> "",
              result |-> get_material_indices(heap[1].mesh)]
  /\ UNCHANGED <<flags, file, input, pos, stack, status, heap, xsi, log, written>>

NextMaterials == call_get_material_indices

SpecMaterials == InitMaterials /\ [][NextMaterials]_vars

\* The place of the first entry of l equal to m.
FirstPlace(l, m) == CHOOSE k \in 1..Len(l) : l[k] = m /\ \A j \in 1..(k - 1) : l[j] # m

\* indices and materials are the view of the list fm.
IsIndexView(fm, indices, materials) ==
  /\ Len(indices) = Len(fm)
  /\ \A k \in 1..Len(fm) :
       /\ indices[k] \in 0..(Len(materials) - 1)
       /\ materials[indices[k] + 1] = fm[k]
  /\ \A i, j \in 1..Len(materials) : i # j => materials[i] # materials[j]
  /\ \A i \in 1..Len(materials) : \E k \in 1..Len(fm) : fm[k] = materials[i]
  /\ \A i, j \in 1..Len(materials) :
       i < j => FirstPlace(fm, materials[i]) < FirstPlace(fm, materials[j])

\* C26: get_material_indices returns an index per face and a list of
\* materials with materials[indices[k]] equal to the material of face k, no
\* two materials of the list equal, the list in the order of first
\* occurrence; face_materials is not changed.
C26_MaterialIndices ==
  call.op = "get_material_indices" =>
    /\ IsIndexView(input.face_materials, call.result[1], call.result[2])
    /\ heap[1].mesh.face_materials = input.face_materials

\* three faces, the first and the third with equal materials
C26_Witness ==
  /\ call.op = "get_material_indices"
  /\ Len(input.face_materials) = 3
  /\ input.face_materials[1] = input.face_materials[3]
  /\ input.face_materials[1] # input.face_materials[2]
  /\ call.result[1] = <<0, 1, 0>>
  /\ Len(call.result[2]) = 2

(***************************************************************************)
(* C27  The counted lists of the Writer                                    *)
(***************************************************************************)

ApiColors == <<<<MICRO, 0, 0, MICRO>>, <<0, MICRO, 0, MICRO>>>>

\* a Mesh with normals, texture coordinates and a material for its face
MeshFull ==
  [MeshOneMaterial EXCEPT
     !.normal_vertices = ApiVertices, !.normal_faces = <<<<0, 1, 0>>>>,
     !.uv_vertices = <<<<0, MICRO>>, <<MICRO, 0>>>>, !.uv_faces = <<<<0, 1, 0>>>>]

\* a Mesh with two vertex colours and one colour face that uses each once
MeshColorsOnce ==
  [MeshOneFace EXCEPT !.vertex_colors = ApiColors, !.vertex_color_faces = <<<<0, 1>>>>]

\* ... and one colour face of three corners, as the face of the mesh
MeshColorsFace ==
  [MeshOneFace EXCEPT !.vertex_colors = ApiColors, !.vertex_color_faces = <<<<0, 1, 0>>>>]

\* ... and two colour faces of one corner
MeshColorsTwoFaces ==
  [MeshOneFace EXCEPT !.vertex_colors = ApiColors, !.vertex_color_faces = <<<<0>>, <<1>>>>]

\* ... and no colour face
MeshColorsNoFaces == [MeshOneFace EXCEPT !.vertex_colors = ApiColors]

ListMeshes ==
  {MeshFull, MeshColorsOnce, MeshColorsFace, MeshColorsTwoFaces, MeshColorsNoFaces}

\* frame.mesh = mesh, a mesh with its lists filled
listed_set_mesh ==
  /\ Building
  /\ \E frame \in 1..Len(heap), mesh \in ListMeshes :
       /\ heap[frame].mesh = None
       /\ Called("mesh", <<frame>>, "", [heap EXCEPT ![frame].mesh = mesh], xsi)

NextLists ==
  \/ api_add_frame
  \/ listed_set_mesh
  \/ api_add_animationkey
  \/ api_add_key
  \/ api_add_envelope
  \/ Writer

SpecLists == InitApi /\ [][NextLists]_vars

\* The positions of the newlines of f, ascending.
Newlines(f) == SelectSeq([i \in 1..Len(f) |-> i], LAMBDA i : f[i] = "\n")

\* The line of f that ends at the given newline, without its tabs.
Unindented(f, from, to) ==
  The({SubSeq(l, Indent(l) + 1, Len(l)) : l \in {SubSeq(f, from, to)}})

\* The lines of f in order, each without its tabs and its newline.
TextLines(f) ==
  The({[i \in 1..Len(nl) |->
          Unindented(f, IF i = 1 THEN 1 ELSE nl[i - 1] + 1, nl[i] - 1)]
       : nl \in {Newlines(f)}})

\* "<count>;"
IsCount(l) ==
  /\ Len(l) >= 2
  /\ l[Len(l)] = ";"
  /\ \A i \in 1..(Len(l) - 1) : l[i] \in Digits

CountOf(l) == NatOf(SubSeq(l, 1, Len(l) - 1), 0)

IsHeader(l) == l # <<>> /\ l[Len(l)] = "{"

\* What a list is followed by: the end of its block, the header of a block
\* or, for a list of tuples, the count of the next list.
EndsList(l, tuples) == l = <<"}">> \/ IsHeader(l) \/ (tuples /\ IsCount(l))

\* Line k of ls declares a count and is followed by that many entries, each
\* but the last ended by a comma and the last by a semicolon, and by no
\* further entry.
CountedAt(ls, k, tuples) ==
  /\ k <= Len(ls)
  /\ IsCount(ls[k])
  /\ k + CountOf(ls[k]) < Len(ls)
  /\ \A i \in 1..CountOf(ls[k]) :
       /\ ls[k + i] # <<>>
       /\ ls[k + i][Len(ls[k + i])] = (IF i < CountOf(ls[k]) THEN "," ELSE ";")
       /\ tuples => ~IsCount(ls[k + i])
  /\ EndsList(ls[k + CountOf(ls[k]) + 1], tuples)

\* From line k: nothing, one list of tuples, or a list of tuples and a list
\* of faces.
TuplesAndFaces(ls, k) ==
  \/ ~IsCount(ls[k]) /\ EndsList(ls[k], FALSE)
  \/ /\ CountedAt(ls, k, TRUE)
     /\ IsCount(ls[k + CountOf(ls[k]) + 1]) =>
          CountedAt(ls, k + CountOf(ls[k]) + 1, TRUE)

WordMeshNormals == <<"S", "I", "_", "M", "e", "s", "h", "N", "o", "r", "m", "a", "l", "s">>
WordMeshTextureCoords ==
  <<"S", "I", "_", "M", "e", "s", "h", "T", "e", "x", "t", "u", "r", "e", "C", "o", "o", "r", "d", "s">>
WordMeshVertexColors ==
  <<"S", "I", "_", "M", "e", "s", "h", "V", "e", "r", "t", "e", "x", "C", "o", "l", "o", "r", "s">>
WordMeshMaterialList ==
  <<"M", "e", "s", "h", "M", "a", "t", "e", "r", "i", "a", "l", "L", "i", "s", "t">>
WordAnimationKey ==
  <<"S", "I", "_", "A", "n", "i", "m", "a", "t", "i", "o", "n", "K", "e", "y">>

\* The lists of the block whose header is line h.
ListsOfBlock(ls, h) ==
  The({
    CASE type \in {WordMesh, WordMeshNormals, WordMeshTextureCoords, WordMeshVertexColors} ->
           TuplesAndFaces(ls, h + 1)
      [] type = WordMeshMaterialList ->
           IsCount(ls[h + 1]) /\ CountedAt(ls, h + 2, FALSE)
      [] type = WordAnimationKey ->
           IsCount(ls[h + 1]) /\ CountedAt(ls, h + 2, TRUE)
      [] type = WordEnvelope -> CountedAt(ls, h + 3, TRUE)
      [] OTHER -> TRUE
    : type \in {FirstWord(ls[h])}})

\* C27: every counted list the Writer emits declares the number of entries
\* written after it, every entry but the last ended by a comma and the last
\* by a semicolon: vertices, normals, texture coordinates, vertex colours,
\* faces, face-to-material indices, animation keys and envelope weights.
C27_CountedLists ==
  Written =>
    \E ls \in {TextLines(file)} :
      \A h \in 1..Len(ls) : IsHeader(ls[h]) => ListsOfBlock(ls, h)

(***************************************************************************)
(* C28  The end of input inside open Frame blocks                          *)
(***************************************************************************)

\* The blocks that leave a Frame open.
FrameOpenBlocks == {k \in SpecialBlocks : Pool[k] = BlockFrameOpen}
OpenBlocks == UnclosedBlocks \cup FrameOpenBlocks

\* Files whose last block leaves a Frame open, after at most MaxBlocks - 1
\* general blocks or MaxBlocks - 2 blocks with a mesh or open frames.
OpenInputs ==
  {[header |-> 1, blocks |-> ix \o <<k>>] :
     ix \in SeqsUpTo(GeneralBlocks, MaxBlocks - 1)
              \cup SeqsUpTo(MeshBlocks \cup FrameOpenBlocks, MaxBlocks - 2),
     k \in OpenBlocks}

InitOpen ==
  /\ input \in OpenInputs
  /\ \E c \in Configs :
       /\ RENAME_DUPLICATE_NAMED_FRAMES = c.rename
       /\ DUPLICATE_FRAME_NOEXCEPT = c.noexcept
       /\ ALLOW_PRINT = c.allow_print
       /\ re_skip = c.skip
  /\ file = FileOf(input)
  /\ pos = 1
  /\ stack = <<>>
  /\ status = "start"
  /\ heap = <<>>
  /\ xsi = NewXSI
  /\ log = <<>>
  /\ call = NoCall
  /\ written = None

SpecOpen == InitOpen /\ [][Next]_vars

NameZ == <<"Z">>
NameU == <<"U">>
NameV == <<"V">>

\* The names of the frames the last block of the file opens.
OpenedBy(b) ==
  CASE b = BlockFrameOpen -> {NameZ, NameW}
    [] b = BlockFrameOpenWord -> {NameV}
    [] OTHER -> {NameU}

\* The blocks whose skip_block runs past their end and takes the rest of
\* the file: the unknown block with adjacent braces and the EnvelopeList.
SkipsOn(in) == Uses(in, BlockUnknownAdj) \/ Uses(in, BlockEnvSelf)

\* C28: a file with a valid header that ends inside open Frame blocks parses
\* without error (but for the errors of the blocks before the end: a
\* duplicate frame name with both flags off and a material index out of
\* range), and the graph has the frames whose headers were read.
C28_OpenFrames ==
  Ended =>
    /\ status \in {"done", "DuplicateFrame", "IndexError"}
    /\ (status = "done" /\ ~SkipsOn(input)) =>
         OpenedBy(Pool[input.blocks[Len(input.blocks)]]) \subseteq DOMAIN xsi.frame_table

(***************************************************************************)
(* C29  One AnimationKey per key type                                      *)
(***************************************************************************)

\* C29: in a parsed graph no frame holds two AnimationKeys of the same key
\* type.
C29_OneKeyPerType ==
  Parsed =>
    \A f \in 1..Len(heap) :
      \A j, k \in 1..Len(heap[f].animation_keys) :
        heap[f].animation_keys[j].key_type = heap[f].animation_keys[k].key_type => j = k

(***************************************************************************)
(* C30  The back-references of a frame                                     *)
(***************************************************************************)

Delimiter == <<" ", "-", ">", " ">>

\* The loop of Frame.get_chained_name: the names from frm up to its root.
RECURSIVE ChainOf(_, _, _)
ChainOf(h, frm, chain) ==
  IF frm = 0 THEN chain ELSE ChainOf(h, h[frm].parent, Append(chain, h[frm].name))

\* delimiter.join(reversed(chain))
RECURSIVE JoinReversed(_, _)
JoinReversed(chain, delimiter) ==
  IF Len(chain) = 0 THEN <<>>
  ELSE IF Len(chain) = 1 THEN chain[1]
  ELSE JoinReversed(Tail(chain), delimiter) \o delimiter \o chain[1]

\* Frame.get_chained_name
get_chained_name(h, frame) == JoinReversed(ChainOf(h, frame, <<>>), Delimiter)

\* The frame reached from frame by n steps along parent, 0 past a root.
RECURSIVE Up(_, _, _)
Up(h, frame, n) == IF n = 0 \/ frame = 0 THEN frame ELSE Up(h, h[frame].parent, n - 1)

\* The frames list of every container holds frames that refer back to it.
RefersBack(h, x, P) ==
  \A i \in 1..Len(FramesList(h, x, P)) :
    /\ h[FramesList(h, x, P)[i]].parent = P
    /\ h[FramesList(h, x, P)[i]].xsi = 0

\* C30: for every container P of the graph and every frame c of P.frames,
\* c.parent is P when P is a Frame and None when P is the XSI, and c.xsi is
\* the XSI; the parent chain of every frame ends at a root frame after fewer
\* steps than there are frames, and get_chained_name is the frame's name for
\* a root and the parent's chained name, the delimiter and the name otherwise.
C30_BackReferences ==
  /\ \A P \in 0..Len(heap) : RefersBack(heap, xsi, P)
  /\ \A c \in 1..Len(heap) :
       /\ Up(heap, c, Len(heap)) = 0
       /\ get_chained_name(heap, c) =
            IF heap[c].parent = 0 THEN heap[c].name
            ELSE get_chained_name(heap, heap[c].parent) \o Delimiter \o heap[c].name

\* A frame two levels below a root frame, added last.
C30_Witness ==
  /\ call.op = "add_frame"
  /\ call.raised = ""
  /\ \E c \in 1..Len(heap) :
       /\ c = Len(heap)
       /\ heap[c].parent # 0
       /\ heap[heap[c].parent].parent # 0
       /\ heap[heap[heap[c].parent].parent].parent = 0

====
